---- MODULE Spec2Model ----
(***************************************************************************)
(* Bootstrap reconciliation of a Proxmox machine                           *)
(* (internal/service/vmservice/bootstrap.go): the idempotency guard, the   *)
(* prerequisite checks, the retrieval of the bootstrap secret, the network *)
(* config assembler and the injection of the cloud-init ISO.               *)
(*                                                                         *)
(* Go strings that the code cuts or concatenates (device names) are        *)
(* sequences of tokens, "-" being a token of its own.  A Go pointer is a   *)
(* sequence of length at most one, <<>> being nil.  A Go error is the      *)
(* chain of its messages, outermost wrap first, Nil being the nil error.   *)
(***************************************************************************)
EXTENDS Integers, Sequences, FiniteSets, TLC

\* ------------------------------------------------------------------------
\* Bounds of the model.

\* The counters of Inject calls saturate at this value.
MaxCount == 2

\* The most additional devices of a machine whose network config is
\* assembled on its own.
MaxNics == 2

\* The most devices of a list that is rendered on its own.
MaxDevices == 2

\* ------------------------------------------------------------------------
\* Go helpers.

Nil == <<>>

\* errors.New(message)
New(message) == <<message>>

\* errors.Wrap(err, message), errors.Wrapf(err, format, device)
Wrap(err, message) == <<message>> \o err

\* ptr.Deref(p, def)
Deref(p, def) == IF p = <<>> THEN def ELSE p[1]

\* ptr.To(v)
To(v) == <<v>>

Min(a, b) == IF a < b THEN a ELSE b

\* Nothing is cut off.
CutWhole(s, sep) == s

\* strings.Cut(s, sep): the part of s before the first sep, all of s when
\* sep does not occur in s.
Cut(s, sep) ==
    LET hits == {i \in 1..Len(s) : s[i] = sep}
    IN  IF hits = {} THEN s
        ELSE SubSeq(s, 1, (CHOOSE i \in hits : \A j \in hits : i <= j) - 1)

\* fmt.Sprintf("%s-%s", name, suffix)
SprintfDash(name, suffix) == name \o <<"-">> \o suffix

\* ------------------------------------------------------------------------
\* Names and reasons of the API package.

DefaultNetworkDevice == <<"net0">>
DefaultSuffix == <<"inet">>
DefaultNetworkDeviceIPV4 == SprintfDash(DefaultNetworkDevice, DefaultSuffix)
DefaultNetworkDeviceIPV6 == SprintfDash(DefaultNetworkDevice, DefaultSuffix \o <<"6">>)

VMProvisionedCondition == "VMProvisioned"
WaitingForStaticIPAllocationReason == "WaitingForStaticIPAllocation"
CloningFailedReason == "CloningFailed"
VMProvisionFailedReason == "VMProvisionFailed"
ConditionSeverityWarning == "Warning"

\* The condition of the machine before anything marked it.
NoCondition ==
    [type |-> VMProvisionedCondition, status |-> "", reason |-> "", severity |-> "",
     message |-> <<>>]

\* conditions.MarkFalse(machine, VMProvisionedCondition, reason, severity, message)
MarkFalse(reason, severity, message) ==
    [type |-> VMProvisionedCondition, status |-> "False", reason |-> reason,
     severity |-> severity, message |-> message]

\* ------------------------------------------------------------------------
\* Errors.

\* Messages of the errors the reconciler makes or wraps.
MsgNoBootstrapData == "machine has no bootstrap data"
MsgSecretRetrieve == "failed to retrieve bootstrap data secret"
MsgSecretValueMissing == "error retrieving bootstrap data: secret value key is missing"
MsgNoMac == "unable to extract mac address"
MsgFindIPAddress == "unable to find IPAddress, device"
MsgDeviceConfig == "unable to get network config data for device"
MsgDefaultMacMismatch == "default network device ipv4 and ipv6 have different mac addresses"
MsgAdditionalMacMismatch == "additional network device ipv4 and ipv6 have different mac addresses"
MsgInject == "cloud-init iso inject failed"

\* Errors of the collaborators.
ErrNotFound == New("not found")
ErrInjectorFailed == New("inject failed")

\* ------------------------------------------------------------------------
\* The environment the reconciler reads.

\* The MAC address the hypervisor gives a net device ("" in the VM config is
\* a config line without a MAC address).
MacOf(d) ==
    IF d = <<"net0">> THEN "92:60:a0:5b:22:c2"
    ELSE IF d = <<"net1">> THEN "b4:87:18:bf:a3:60"
    ELSE "mac of " \o d[1]

\* The additional devices a machine is created with (name, pool references,
\* DNS override of each): none, or net1 with an IPv4 pool.
MachineNetworks ==
    {<<>>,
     <<[Name |-> <<"net1">>, IPv4PoolRef |-> TRUE, IPv6PoolRef |-> FALSE,
        DNSServers |-> <<>>]>>}

ClusterDNSServers == <<"8.8.8.8", "8.8.4.4">>

\* The allocated address object of a device name, once it exists.
AddressSpec(device) ==
    CASE device = <<"net0", "-", "inet">> ->
           [Address |-> "10.10.10.12", Prefix |-> 24, Gateway |-> "10.10.10.1"]
      [] device = <<"net0", "-", "inet", "6">> ->
           [Address |-> "2001:db8::1", Prefix |-> 64, Gateway |-> "2001:db8::1"]
      [] device = <<"net1", "-", "inet">> ->
           [Address |-> "196.168.100.124", Prefix |-> 24, Gateway |-> "196.168.100.254"]
      [] device = <<"net1", "-", "inet", "6">> ->
           [Address |-> "2001:db8:1::1", Prefix |-> 64, Gateway |-> "2001:db8:1::ff"]
      [] OTHER ->
           [Address |-> "address of " \o device[1] \o device[Len(device)],
            Prefix |-> IF device[Len(device)] = "6" THEN 64 ELSE 24,
            Gateway |-> "gateway of " \o device[1] \o device[Len(device)]]

\* The address of the device name k in CIDR form, and its gateway, as the
\* pool allocated them.
AllocatedAddress(k) == <<AddressSpec(k).Address, "/", AddressSpec(k).Prefix>>
AllocatedGateway(k) == AddressSpec(k).Gateway

\* ------------------------------------------------------------------------
\* The network config assembler.  machineScope is a record of what the
\* machine scope holds: nets (the merged net devices of the VM config),
\* addresses (the device names with an allocated address object),
\* IPv4Config / IPv6Config (is the pool configured), DNSServers (of the
\* cluster) and AdditionalDevices (of the machine).  Every operator returns
\* its value, its error and the address lookups it made, in order.

\* cloudinit.NetworkConfigData{}
ZeroNetworkConfigData ==
    [MacAddress |-> "", IPAddress |-> <<>>, Gateway |-> "",
     IPV6Address |-> <<>>, Gateway6 |-> "", DNSServers |-> <<>>]

\* extractMACAddress(nets[device]): "" when the device is not in the map
\* or its config line holds no MAC address.
extractMACAddress(nets, device) ==
    IF device \in DOMAIN nets THEN nets[device] ELSE ""

\* findIPAddress(ctx, machineScope, device)
findIPAddress(machineScope, device) ==
    IF device \in machineScope.addresses
    THEN [ipAddr |-> AddressSpec(device), err |-> Nil]
    ELSE [ipAddr |-> AddressSpec(device), err |-> ErrNotFound]

\* IPAddressWithPrefix(address, prefix): the address in CIDR form.
IPAddressWithPrefix(address, prefix) == <<address, "/", prefix>>

\* The resolution of a device that has no pool: nothing looked up.
NotResolved == [conf |-> ZeroNetworkConfigData, err |-> Nil, lookups |-> <<>>]

\* getNetworkConfigDataForDevice after findIPAddress.
DeviceWithAddress(machineScope, device, macAddress, found) ==
    IF found.err # Nil
    THEN [conf |-> ZeroNetworkConfigData, err |-> Wrap(found.err, MsgFindIPAddress),
          lookups |-> <<device>>]
    ELSE [conf |-> [MacAddress |-> macAddress,
                    IPAddress |-> IPAddressWithPrefix(found.ipAddr.Address,
                                                      found.ipAddr.Prefix),
                    Gateway |-> found.ipAddr.Gateway,
                    IPV6Address |-> <<>>, Gateway6 |-> "",
                    DNSServers |-> machineScope.DNSServers],
          err |-> Nil, lookups |-> <<device>>]

\* The address is looked up though the device has no MAC address.
DeviceWithMacLooksUpAddress(machineScope, device, macAddress) ==
    IF macAddress = ""
    THEN [conf |-> ZeroNetworkConfigData, err |-> New(MsgNoMac), lookups |-> <<device>>]
    ELSE DeviceWithAddress(machineScope, device, macAddress,
                           findIPAddress(machineScope, device))

\* getNetworkConfigDataForDevice after extractMACAddress.
DeviceWithMac(machineScope, device, macAddress) ==
    IF macAddress = ""
    THEN [conf |-> ZeroNetworkConfigData, err |-> New(MsgNoMac), lookups |-> <<>>]
    ELSE DeviceWithAddress(machineScope, device, macAddress,
                           findIPAddress(machineScope, device))

getNetworkConfigDataForDevice(machineScope, device) ==
    DeviceWithMac(machineScope, device,
                  extractMACAddress(machineScope.nets, Cut(device, "-")))

\* The switch folds conf into config without the look at the MAC addresses.
MergeIPv6NoMacCheck(config, conf, mismatch) ==
    IF config.MacAddress = ""
    THEN [config |-> conf, err |-> Nil]
    ELSE [config |-> [config EXCEPT !.IPV6Address = conf.IPAddress,
                                    !.Gateway6 = conf.Gateway],
          err |-> Nil]

\* The switch that folds the IPv6 resolution conf into config (in
\* getDefaultNetworkDevice and in getAdditionalNetworkDevices).
MergeIPv6(config, conf, mismatch) ==
    IF config.MacAddress = ""
    THEN [config |-> conf, err |-> Nil]
    ELSE IF config.MacAddress # conf.MacAddress
    THEN [config |-> config, err |-> New(mismatch)]
    ELSE [config |-> [config EXCEPT !.IPV6Address = conf.IPAddress,
                                    !.Gateway6 = conf.Gateway],
          err |-> Nil]

\* getDefaultNetworkDevice after the switch.
DefaultMerged(merged, lookups) ==
    IF merged.err # Nil
    THEN [data |-> <<>>, err |-> merged.err, lookups |-> lookups]
    ELSE [data |-> <<merged.config>>, err |-> Nil, lookups |-> lookups]

\* The IPv6 resolution is returned as a record of its own, after the IPv4 one.
DefaultIPv6NotMerged(v4, v6) ==
    IF v6.err # Nil
    THEN [data |-> <<>>, err |-> Wrap(v6.err, MsgDeviceConfig),
          lookups |-> v4.lookups \o v6.lookups]
    ELSE [data |-> IF v4.conf.MacAddress = "" THEN <<v6.conf>> ELSE <<v4.conf, v6.conf>>,
          err |-> Nil, lookups |-> v4.lookups \o v6.lookups]

\* getDefaultNetworkDevice after the IPv6 resolution v6.
DefaultIPv6(v4, v6) ==
    IF v6.err # Nil
    THEN [data |-> <<>>, err |-> Wrap(v6.err, MsgDeviceConfig),
          lookups |-> v4.lookups \o v6.lookups]
    ELSE DefaultMerged(MergeIPv6(v4.conf, v6.conf, MsgDefaultMacMismatch),
                       v4.lookups \o v6.lookups)

\* getDefaultNetworkDevice after the IPv4 resolution v4.
DefaultIPv4(machineScope, v4) ==
    IF v4.err # Nil
    THEN [data |-> <<>>, err |-> Wrap(v4.err, MsgDeviceConfig), lookups |-> v4.lookups]
    ELSE IF ~machineScope.IPv6Config
    THEN [data |-> <<v4.conf>>, err |-> Nil, lookups |-> v4.lookups]
    ELSE DefaultIPv6(v4, getNetworkConfigDataForDevice(machineScope,
                                                       DefaultNetworkDeviceIPV6))

getDefaultNetworkDevice(machineScope) ==
    DefaultIPv4(machineScope,
                IF machineScope.IPv4Config
                THEN getNetworkConfigDataForDevice(machineScope, DefaultNetworkDeviceIPV4)
                ELSE NotResolved)

\* The record of nic after the switch.
AdditionalMerged(merged, lookups) ==
    [config |-> merged.config, err |-> merged.err, lookups |-> lookups]

\* The record of nic after the IPv6 resolution v6: the DNS servers of nic
\* are set on config before the switch.
AdditionalIPv6(nic, config, v4, v6) ==
    IF v6.err # Nil
    THEN [config |-> ZeroNetworkConfigData, err |-> Wrap(v6.err, MsgDeviceConfig),
          lookups |-> v4.lookups \o v6.lookups]
    ELSE AdditionalMerged(
             MergeIPv6(IF Len(nic.DNSServers) # 0
                       THEN [config EXCEPT !.DNSServers = nic.DNSServers]
                       ELSE config,
                       v6.conf, MsgAdditionalMacMismatch),
             v4.lookups \o v6.lookups)

\* The record of nic after the IPv4 resolution v4: config = conf overwrites
\* the DNS servers set the line before.
AdditionalIPv4(machineScope, nic, v4) ==
    IF v4.err # Nil
    THEN [config |-> ZeroNetworkConfigData, err |-> Wrap(v4.err, MsgDeviceConfig),
          lookups |-> v4.lookups]
    ELSE IF ~nic.IPv6PoolRef
    THEN [config |-> v4.conf, err |-> Nil, lookups |-> v4.lookups]
    ELSE AdditionalIPv6(nic, v4.conf, v4,
             getNetworkConfigDataForDevice(machineScope,
                 SprintfDash(nic.Name, DefaultSuffix \o <<"6">>)))

\* One iteration of the loop of getAdditionalNetworkDevices: the record of
\* nic (config), the error that ends the loop, and the lookups made.
AdditionalDevice(machineScope, nic) ==
    AdditionalIPv4(machineScope, nic,
                   IF nic.IPv4PoolRef
                   THEN getNetworkConfigDataForDevice(machineScope,
                            SprintfDash(nic.Name, DefaultSuffix))
                   ELSE NotResolved)

\* The record of nic is appended whether it has a MAC address or not.
AdditionalAppendAlways(data, lookups, one) ==
    IF one.err # Nil
    THEN [data |-> <<>>, err |-> one.err, lookups |-> lookups \o one.lookups]
    ELSE [data |-> Append(data, one.config), err |-> Nil,
          lookups |-> lookups \o one.lookups]

\* The loop of getAdditionalNetworkDevices at nic, the records appended
\* before it being data and the lookups made before it lookups.
AdditionalAppend(data, lookups, one) ==
    IF one.err # Nil
    THEN [data |-> <<>>, err |-> one.err, lookups |-> lookups \o one.lookups]
    ELSE [data |-> IF one.config.MacAddress # "" THEN Append(data, one.config) ELSE data,
          err |-> Nil, lookups |-> lookups \o one.lookups]

RECURSIVE AdditionalDevicesFrom(_, _, _, _)
AdditionalDevicesFrom(machineScope, nics, i, sofar) ==
    IF i > Len(nics) \/ sofar.err # Nil
    THEN sofar
    ELSE AdditionalDevicesFrom(machineScope, nics, i + 1,
             AdditionalAppend(sofar.data, sofar.lookups,
                              AdditionalDevice(machineScope, nics[i])))

getAdditionalNetworkDevices(machineScope, network) ==
    AdditionalDevicesFrom(machineScope, network.AdditionalDevices, 1,
                          [data |-> <<>>, err |-> Nil, lookups |-> <<>>])

\* The records of the additional devices are put before the default one.
WithAdditionalConfigFirst(defaultConfig, additionalConfig) ==
    IF additionalConfig.err # Nil
    THEN [data |-> <<>>, err |-> additionalConfig.err,
          lookups |-> defaultConfig.lookups \o additionalConfig.lookups]
    ELSE [data |-> additionalConfig.data \o defaultConfig.data, err |-> Nil,
          lookups |-> defaultConfig.lookups \o additionalConfig.lookups]

\* getNetworkConfigData after getAdditionalNetworkDevices.
WithAdditionalConfig(defaultConfig, additionalConfig) ==
    IF additionalConfig.err # Nil
    THEN [data |-> <<>>, err |-> additionalConfig.err,
          lookups |-> defaultConfig.lookups \o additionalConfig.lookups]
    ELSE [data |-> defaultConfig.data \o additionalConfig.data, err |-> Nil,
          lookups |-> defaultConfig.lookups \o additionalConfig.lookups]

\* The additional devices are resolved in spite of the error of the default one.
WithDefaultConfigContinues(machineScope, defaultConfig) ==
    WithAdditionalConfig(defaultConfig,
        getAdditionalNetworkDevices(machineScope,
            [AdditionalDevices |-> machineScope.AdditionalDevices]))

\* getNetworkConfigData after getDefaultNetworkDevice.
WithDefaultConfig(machineScope, defaultConfig) ==
    IF defaultConfig.err # Nil
    THEN [data |-> <<>>, err |-> defaultConfig.err, lookups |-> defaultConfig.lookups]
    ELSE WithAdditionalConfig(defaultConfig,
             getAdditionalNetworkDevices(machineScope,
                 [AdditionalDevices |-> machineScope.AdditionalDevices]))

getNetworkConfigData(machineScope) ==
    WithDefaultConfig(machineScope, getDefaultNetworkDevice(machineScope))

\* ------------------------------------------------------------------------
\* The bootstrap reconciler.  Besides what the assembler reads, machineScope
\* holds BootstrapDataProvided and condition (the status of the machine),
\* IPAddresses (the devices with an address in the status), DataSecretName
\* (of the machine's bootstrap spec), secret (the secret store) and
\* injectorFails (the injector the pass would get).  A call of a
\* collaborator is logged as [fn, device, err]: the function, the device it
\* looked up (findIPAddress) and the error it returned.

SecretCall(err) == [fn |-> "GetBootstrapSecret", device |-> <<>>, err |-> err]
LookupCall(machineScope, device) ==
    [fn |-> "findIPAddress", device |-> device, err |-> findIPAddress(machineScope, device).err]
InjectCall(err) == [fn |-> "Inject", device |-> <<>>, err |-> err]

RECURSIVE LookupCalls(_, _)
LookupCalls(machineScope, lookups) ==
    IF lookups = <<>> THEN <<>>
    ELSE <<LookupCall(machineScope, Head(lookups))>>
         \o LookupCalls(machineScope, Tail(lookups))

\* machineHasIPAddress(machine): the status holds an address of the
\* default network device.
machineHasIPAddress(machineScope) ==
    DefaultNetworkDevice \in machineScope.IPAddresses

\* The check of the empty map is inverted.
vmHasMacAddressesInverted(machineScope) ==
    IF Cardinality(DOMAIN machineScope.nets) # 0 THEN FALSE
    ELSE \A d \in DOMAIN machineScope.nets : extractMACAddress(machineScope.nets, d) # ""

vmHasMacAddresses(machineScope) ==
    IF Cardinality(DOMAIN machineScope.nets) = 0 THEN FALSE
    ELSE \A d \in DOMAIN machineScope.nets : extractMACAddress(machineScope.nets, d) # ""

\* scope.GetBootstrapSecret(ctx, secret)
GetBootstrapSecret(scope) ==
    IF scope.secret = <<>>
    THEN [Data |-> [none |-> ""], err |-> ErrNotFound]
    ELSE [Data |-> scope.secret[1], err |-> Nil]

\* getBootstrapData after the secret was got, without the look at ok.
WithSecretNoKeyCheck(got) ==
    IF got.err # Nil
    THEN [value |-> "", err |-> Wrap(got.err, MsgSecretRetrieve),
          calls |-> <<SecretCall(got.err)>>]
    ELSE [value |-> IF "value" \in DOMAIN got.Data THEN got.Data["value"] ELSE "",
          err |-> Nil, calls |-> <<SecretCall(got.err)>>]

\* getBootstrapData after the secret was got.
WithSecret(got) ==
    IF got.err # Nil
    THEN [value |-> "", err |-> Wrap(got.err, MsgSecretRetrieve),
          calls |-> <<SecretCall(got.err)>>]
    ELSE IF "value" \notin DOMAIN got.Data
    THEN [value |-> "", err |-> New(MsgSecretValueMissing),
          calls |-> <<SecretCall(got.err)>>]
    ELSE [value |-> got.Data["value"], err |-> Nil, calls |-> <<SecretCall(got.err)>>]

getBootstrapData(scope) ==
    IF scope.DataSecretName = <<>>
    THEN [value |-> "", err |-> New(MsgNoBootstrapData), calls |-> <<>>]
    ELSE WithSecret(GetBootstrapSecret(scope))

\* injector.Inject(ctx)
Inject(machineScope) ==
    IF machineScope.injectorFails THEN ErrInjectorFailed ELSE Nil

\* What a pass leaves: the guard and the condition of the machine, the
\* returned (requeue, err) and the calls of collaborators it made.
Pass(provided, condition, requeue, err, calls) ==
    [BootstrapDataProvided |-> provided, condition |-> condition,
     returns |-> <<requeue, err>>, calls |-> calls]

\* The skip asks for a requeue.
AlreadyProvidedRequeues(machineScope) ==
    Pass(machineScope.BootstrapDataProvided, machineScope.condition, TRUE, Nil, <<>>)

\* The machine already has the bootstrap data.
AlreadyProvided(machineScope) ==
    Pass(machineScope.BootstrapDataProvided, machineScope.condition, FALSE, Nil, <<>>)

\* The missing IP address is marked, the requeue is not asked for.
NoIPAddressNoRequeue(machineScope) ==
    Pass(machineScope.BootstrapDataProvided,
         MarkFalse(WaitingForStaticIPAllocationReason, ConditionSeverityWarning,
                   New("no ip address")),
         FALSE, Nil, <<>>)

\* The machine has no IP address yet.
NoIPAddress(machineScope) ==
    Pass(machineScope.BootstrapDataProvided,
         MarkFalse(WaitingForStaticIPAllocationReason, ConditionSeverityWarning,
                   New("no ip address")),
         TRUE, Nil, <<>>)

\* The missing MAC address is marked as the missing IP address is.
NoMacAddressMarks(machineScope) ==
    Pass(machineScope.BootstrapDataProvided,
         MarkFalse(WaitingForStaticIPAllocationReason, ConditionSeverityWarning,
                   New("no mac address")),
         TRUE, Nil, <<>>)

\* A net device of the VM has no MAC address yet.
NoMacAddress(machineScope) ==
    Pass(machineScope.BootstrapDataProvided, machineScope.condition, TRUE, Nil, <<>>)

\* The failure of getBootstrapData is returned with a requeue.
BootstrapDataFailedRequeues(machineScope, err, calls) ==
    Pass(machineScope.BootstrapDataProvided,
         MarkFalse(CloningFailedReason, ConditionSeverityWarning, err),
         TRUE, err, calls)

\* getBootstrapData failed with err.
BootstrapDataFailed(machineScope, err, calls) ==
    Pass(machineScope.BootstrapDataProvided,
         MarkFalse(CloningFailedReason, ConditionSeverityWarning, err),
         FALSE, err, calls)

\* The failure of the assembler is marked with the reason of step 4.
NetworkConfigFailedAsCloning(machineScope, err, calls) ==
    Pass(machineScope.BootstrapDataProvided,
         MarkFalse(CloningFailedReason, ConditionSeverityWarning, err),
         FALSE, err, calls)

\* The failure of the assembler is a requeue without error.
NetworkConfigFailedRequeues(machineScope, err, calls) ==
    Pass(machineScope.BootstrapDataProvided,
         MarkFalse(WaitingForStaticIPAllocationReason, ConditionSeverityWarning, err),
         TRUE, Nil, calls)

\* getNetworkConfigData failed with err.
NetworkConfigFailed(machineScope, err, calls) ==
    Pass(machineScope.BootstrapDataProvided,
         MarkFalse(WaitingForStaticIPAllocationReason, ConditionSeverityWarning, err),
         FALSE, err, calls)

\* The guard is set before the error of Inject is looked at.
InjectFailedSetsGuard(machineScope, err, calls) ==
    Pass(To(TRUE),
         MarkFalse(VMProvisionFailedReason, ConditionSeverityWarning, err),
         FALSE, Wrap(err, MsgInject), calls)

\* The failure of Inject is returned, the condition is not marked.
InjectFailedNotMarked(machineScope, err, calls) ==
    Pass(machineScope.BootstrapDataProvided, machineScope.condition,
         FALSE, Wrap(err, MsgInject), calls)

\* injector.Inject failed with err.
InjectFailed(machineScope, err, calls) ==
    Pass(machineScope.BootstrapDataProvided,
         MarkFalse(VMProvisionFailedReason, ConditionSeverityWarning, err),
         FALSE, Wrap(err, MsgInject), calls)

\* The guard is not set after the injection.
InjectedGuardNotSet(machineScope, calls) ==
    Pass(machineScope.BootstrapDataProvided, machineScope.condition, FALSE, Nil, calls)

\* The ISO was injected.
Injected(machineScope, calls) ==
    Pass(To(TRUE), machineScope.condition, FALSE, Nil, calls)

\* reconcileBootstrapData after injector.Inject returned err.
AfterInject(machineScope, calls, err) ==
    IF err # Nil
    THEN InjectFailed(machineScope, err, Append(calls, InjectCall(err)))
    ELSE Injected(machineScope, Append(calls, InjectCall(err)))

\* reconcileBootstrapData after getNetworkConfigData.
AfterNetworkConfigData(machineScope, calls, nicData) ==
    IF nicData.err # Nil
    THEN NetworkConfigFailed(machineScope, nicData.err, calls)
    ELSE AfterInject(machineScope, calls, Inject(machineScope))

\* The addresses are looked up before the error of getBootstrapData is
\* looked at.
AfterBootstrapDataLooksUpFirst(machineScope, bootstrapData, nicData) ==
    IF bootstrapData.err # Nil
    THEN BootstrapDataFailed(machineScope, bootstrapData.err,
             bootstrapData.calls \o LookupCalls(machineScope, nicData.lookups))
    ELSE AfterNetworkConfigData(machineScope,
             bootstrapData.calls \o LookupCalls(machineScope, nicData.lookups),
             nicData)

\* reconcileBootstrapData after getBootstrapData.
AfterBootstrapData(machineScope, bootstrapData, nicData) ==
    IF bootstrapData.err # Nil
    THEN BootstrapDataFailed(machineScope, bootstrapData.err, bootstrapData.calls)
    ELSE AfterNetworkConfigData(machineScope,
             bootstrapData.calls \o LookupCalls(machineScope, nicData.lookups),
             nicData)

reconcileBootstrapData(machineScope) ==
    IF Deref(machineScope.BootstrapDataProvided, FALSE)
    THEN AlreadyProvided(machineScope)
    ELSE IF ~machineHasIPAddress(machineScope)
    THEN NoIPAddress(machineScope)
    ELSE IF ~vmHasMacAddresses(machineScope)
    THEN NoMacAddress(machineScope)
    ELSE AfterBootstrapData(machineScope, getBootstrapData(machineScope),
                            getNetworkConfigData(machineScope))

\* ------------------------------------------------------------------------
\* The state: the machine and what surrounds it, the outcome of the last
\* pass and the count of the Inject calls so far.

VARIABLES
    BootstrapDataProvided,  \* Status.BootstrapDataProvided, a *bool
    condition,              \* the VMProvisioned condition of the machine
    IPAddresses,            \* Status.IPAddresses: devices with an address
    DataSecretName,         \* Machine.Spec.Bootstrap.DataSecretName, a *string
    AdditionalDevices,      \* ProxmoxMachine.Spec.Network.AdditionalDevices
    IPv4Config,             \* ProxmoxCluster.Spec.IPv4Config # nil
    IPv6Config,             \* ProxmoxCluster.Spec.IPv6Config # nil
    nets,                   \* VirtualMachineConfig.MergeNets(): device -> MAC
    secret,                 \* the bootstrap secret: <<>> or <<its Data>>
    addresses,              \* device names with an allocated address object
    injectorFails,          \* will Inject return an error
    returns,                \* (requeue, err) of the pass that just ended,
                            \* <<>> when the last step was not a pass
    calls,                  \* collaborator calls of the pass that just ended
    injectCalls,            \* Inject calls so far
    injectSucceeded,        \* Inject calls that returned nil so far
    assembled,              \* <<>>, or <<what getNetworkConfigData returned>>
                            \* when it was called on its own
    switched,               \* <<>>, or <<two resolutions and what the switch
                            \* of the IPv6 resolution made of them>>
    nics,                   \* the devices a network config was made of
    rendered,               \* <<>>, or <<what Render returned for nics>>
    total,                  \* node.Memory.Total of the Proxmox node
    vms,                    \* node.VirtualMachines(): the VMs of the node
    clientFails,            \* the call of the Proxmox client that fails, if any
    reservable,             \* <<>>, or <<what GetReservableMemoryBytes returned>>
    NodeLocations,          \* ProxmoxCluster.Status.NodeLocations, a pointer
    located,                \* <<>>, or <<the last call on the node locations>>
    resolution              \* <<>>, or <<a device name and what
                            \* getNetworkConfigDataForDevice returned for it>>

machineVars == <<BootstrapDataProvided, condition>>
specVars == <<AdditionalDevices, IPv4Config, IPv6Config>>
envVars == <<IPAddresses, DataSecretName, nets, secret, addresses, injectorFails>>
passVars == <<returns, calls>>
countVars == <<injectCalls, injectSucceeded>>
pureVars == <<assembled, switched, nics, rendered>>
memoryVars == <<total, vms, clientFails, reservable>>
locationVars == <<NodeLocations, located>>
clusterVars == <<memoryVars, locationVars>>
resolverVars == <<resolution>>
vars == <<machineVars, specVars, envVars, passVars, countVars, pureVars, clusterVars,
          resolverVars>>

\* The machine scope of the current state.
MachineScope ==
    [BootstrapDataProvided |-> BootstrapDataProvided, condition |-> condition,
     IPAddresses |-> IPAddresses, DataSecretName |-> DataSecretName,
     AdditionalDevices |-> AdditionalDevices,
     IPv4Config |-> IPv4Config, IPv6Config |-> IPv6Config,
     DNSServers |-> ClusterDNSServers,
     nets |-> nets, secret |-> secret, addresses |-> addresses,
     injectorFails |-> injectorFails]

\* The device names the specs of the cluster and the machine ask addresses for.
ConfiguredKeys ==
    (IF IPv4Config THEN {DefaultNetworkDeviceIPV4} ELSE {})
    \cup (IF IPv6Config THEN {DefaultNetworkDeviceIPV6} ELSE {})
    \cup {SprintfDash(AdditionalDevices[i].Name, DefaultSuffix) :
             i \in {j \in DOMAIN AdditionalDevices : AdditionalDevices[j].IPv4PoolRef}}
    \cup {SprintfDash(AdditionalDevices[i].Name, DefaultSuffix \o <<"6">>) :
             i \in {j \in DOMAIN AdditionalDevices : AdditionalDevices[j].IPv6PoolRef}}

\* The net devices the VM is given: one for the default device and one for
\* each additional device of the machine.
VMDevices ==
    {DefaultNetworkDevice} \cup {AdditionalDevices[i].Name : i \in DOMAIN AdditionalDevices}

SecretDatas == {[value |-> "#cloud-config"], [format |-> "cloud-config"]}

\* A node without memory and VMs, a cluster without node locations and no
\* device resolved on its own.
ClusterIdle ==
    /\ total = 0
    /\ vms = <<>>
    /\ clientFails = ""
    /\ reservable = <<>>
    /\ NodeLocations = <<>>
    /\ located = <<>>
    /\ resolution = <<>>

\* No function was called on its own.
NothingApplied ==
    /\ assembled = <<>>
    /\ switched = <<>>
    /\ nics = <<>>
    /\ rendered = <<>>
    /\ ClusterIdle

\* A machine that was just created: no guard, no condition, nothing
\* allocated; either pool of the cluster is configured, or both.
Init ==
    /\ BootstrapDataProvided \in {<<>>, To(FALSE)}
    /\ condition = NoCondition
    /\ IPAddresses = {}
    /\ DataSecretName = <<>>
    /\ AdditionalDevices \in MachineNetworks
    /\ IPv4Config \in BOOLEAN
    /\ IPv6Config \in BOOLEAN
    /\ IPv4Config \/ IPv6Config
    /\ nets = <<>>
    /\ secret = <<>>
    /\ addresses = {}
    /\ injectorFails \in BOOLEAN
    /\ returns = <<>>
    /\ calls = <<>>
    /\ injectCalls = 0
    /\ injectSucceeded = 0
    /\ NothingApplied

\* One reconcile pass of the controller.
EndPass(pass) ==
    /\ BootstrapDataProvided' = pass.BootstrapDataProvided
    /\ condition' = pass.condition
    /\ returns' = pass.returns
    /\ calls' = pass.calls
    /\ injectCalls' =
         Min(injectCalls + Cardinality({i \in DOMAIN pass.calls :
                                          pass.calls[i].fn = "Inject"}),
             MaxCount)
    /\ injectSucceeded' =
         Min(injectSucceeded + Cardinality({i \in DOMAIN pass.calls :
                                              pass.calls[i] = InjectCall(Nil)}),
             MaxCount)

ReconcileBootstrapData ==
    /\ EndPass(reconcileBootstrapData(MachineScope))
    /\ UNCHANGED <<specVars, envVars, pureVars, clusterVars, resolverVars>>

\* The caller took the outcome of the last pass; the next step is not a pass.
BetweenPasses ==
    /\ returns' = <<>>
    /\ calls' = <<>>
    /\ UNCHANGED <<machineVars, specVars, countVars, pureVars, clusterVars, resolverVars>>

\* The IP address reconciler records, or drops, the address of the default
\* device in the status of the machine.
SetIPAddresses ==
    /\ \E a \in SUBSET {DefaultNetworkDevice} : IPAddresses' = a
    /\ UNCHANGED <<DataSecretName, nets, secret, addresses, injectorFails>>
    /\ BetweenPasses

\* The bootstrap provider names the secret of the machine, once.
SetDataSecretName ==
    /\ DataSecretName = <<>>
    /\ DataSecretName' = <<"bootstrap">>
    /\ UNCHANGED <<IPAddresses, nets, secret, addresses, injectorFails>>
    /\ BetweenPasses

\* The secret of that name is created, changed or deleted.
SetSecret ==
    /\ DataSecretName # <<>>
    /\ \E d \in {<<>>} \cup {<<x>> : x \in SecretDatas} : secret' = d
    /\ UNCHANGED <<IPAddresses, DataSecretName, nets, addresses, injectorFails>>
    /\ BetweenPasses

\* The hypervisor adds a net device to the VM config, gives it a MAC
\* address, or removes it.
SetNet ==
    /\ \E d \in VMDevices :
          \/ \E mac \in {"", MacOf(d)} :
                nets' = [x \in DOMAIN nets \cup {d} |-> IF x = d THEN mac ELSE nets[x]]
          \/ nets' = [x \in DOMAIN nets \ {d} |-> nets[x]]
    /\ UNCHANGED <<IPAddresses, DataSecretName, secret, addresses, injectorFails>>
    /\ BetweenPasses

\* The address pool allocates, or releases, the address of a device.
SetAddress ==
    /\ \E k \in ConfiguredKeys :
          \/ addresses' = addresses \cup {k}
          \/ addresses' = addresses \ {k}
    /\ UNCHANGED <<IPAddresses, DataSecretName, nets, secret, injectorFails>>
    /\ BetweenPasses

\* The boot media of the VM becomes writable, or stops being so.
SetInjector ==
    /\ injectorFails' \in BOOLEAN
    /\ UNCHANGED <<IPAddresses, DataSecretName, nets, secret, addresses>>
    /\ BetweenPasses

Next ==
    \/ ReconcileBootstrapData
    \/ SetIPAddresses
    \/ SetDataSecretName
    \/ SetSecret
    \/ SetNet
    \/ SetAddress
    \/ SetInjector

Spec == Init /\ [][Next]_vars

\* A machine with the default device only, in a cluster with an IPv4 pool,
\* whose reconcile pass the controller retries forever.
LiveInit ==
    /\ Init
    /\ AdditionalDevices = <<>>
    /\ IPv4Config /\ ~IPv6Config
    /\ BootstrapDataProvided = <<>>

LiveSpec == LiveInit /\ [][Next]_vars /\ WF_vars(ReconcileBootstrapData)

\* ------------------------------------------------------------------------
\* The network config assembler called on its own, on the network spec of
\* any machine and what the VM config and the address pools hold for it.

\* The name of the i-th net device after the default one.
NicName(i) == <<"net" \o ToString(i)>>

\* AdditionalNetworkDevice.DNSServers: no override, or one.
DNSOverrides == {<<>>, <<"1.1.1.1">>}

\* The additional devices a machine can name.
AdditionalNetworkDevices ==
    [Name : {NicName(i) : i \in 1..MaxNics}, IPv4PoolRef : BOOLEAN,
     IPv6PoolRef : BOOLEAN, DNSServers : DNSOverrides]

\* NetworkSpec.AdditionalDevices: a list keyed by the name of the device.
NetworkSpecs ==
    UNION {{l \in [1..n -> AdditionalNetworkDevices] :
               \A i, j \in 1..n : l[i].Name = l[j].Name => i = j} : n \in 0..MaxNics}

\* The VM has a MAC address for every net device but at most one, and the
\* pools an address for every device name asked for but at most one.
AsmInit ==
    /\ BootstrapDataProvided = <<>>
    /\ condition = NoCondition
    /\ IPAddresses = {DefaultNetworkDevice}
    /\ DataSecretName = <<>>
    /\ secret = <<>>
    /\ injectorFails = FALSE
    /\ returns = <<>>
    /\ calls = <<>>
    /\ injectCalls = 0
    /\ injectSucceeded = 0
    /\ AdditionalDevices \in NetworkSpecs
    /\ IPv4Config \in BOOLEAN
    /\ IPv6Config \in BOOLEAN
    /\ IPv4Config \/ IPv6Config
    /\ \E missing \in {m \in SUBSET VMDevices : Cardinality(m) <= 1} :
          nets = [d \in VMDevices \ missing |-> MacOf(d)]
    /\ \E missing \in {m \in SUBSET ConfiguredKeys : Cardinality(m) <= 1} :
          addresses = ConfiguredKeys \ missing
    /\ NothingApplied

\* getNetworkConfigData(ctx, machineScope), once.
CallGetNetworkConfigData ==
    /\ assembled = <<>>
    /\ switched = <<>>
    /\ assembled' = <<getNetworkConfigData(MachineScope)>>
    /\ UNCHANGED <<machineVars, specVars, envVars, passVars, countVars,
                   switched, nics, rendered, clusterVars, resolverVars>>

AsmNext == CallGetNetworkConfigData

AsmSpec == AsmInit /\ [][AsmNext]_vars

\* ------------------------------------------------------------------------
\* The switch of the IPv6 resolution applied on its own, to the resolutions
\* of any two net devices.

\* What getNetworkConfigDataForDevice returns for the device name key when
\* the MAC address it finds is that of the net device d and the address of
\* key is allocated.
ResolutionOf(d, key) ==
    DeviceWithAddress(MachineScope, key, MacOf(d),
                      [ipAddr |-> AddressSpec(key), err |-> Nil])

\* The net devices whose MAC address a resolution can hold.
SwitchDevices == {<<"net0">>, <<"net1">>}

\* The IPv4 resolutions of key that can precede the switch.
ResolutionsBefore(resolved, key) ==
    IF resolved THEN {ResolutionOf(d, key) : d \in SwitchDevices} ELSE {NotResolved}

\* Every net device has its MAC address and every device name its address.
MergeInit ==
    /\ AsmInit
    /\ DOMAIN nets = VMDevices
    /\ addresses = ConfiguredKeys

\* getDefaultNetworkDevice from the switch on, for an IPv4 resolution v4
\* (none without IPv4 pool) and an IPv6 resolution v6.
SwitchDefault ==
    /\ assembled = <<>>
    /\ switched = <<>>
    /\ IPv6Config
    /\ \E v4 \in ResolutionsBefore(IPv4Config, DefaultNetworkDeviceIPV4),
          v6 \in ResolutionsBefore(TRUE, DefaultNetworkDeviceIPV6) :
          switched' = <<[device |-> DefaultNetworkDevice, v4 |-> v4.conf, v6 |-> v6.conf,
                         out |-> DefaultIPv6(v4, v6)]>>
    /\ UNCHANGED <<machineVars, specVars, envVars, passVars, countVars,
                   assembled, nics, rendered, clusterVars, resolverVars>>

\* One iteration of getAdditionalNetworkDevices from the switch on, for an
\* additional device of the machine that references an IPv6 pool.
SwitchAdditional ==
    /\ assembled = <<>>
    /\ switched = <<>>
    /\ \E i \in DOMAIN AdditionalDevices :
          /\ AdditionalDevices[i].IPv6PoolRef
          /\ \E v4 \in ResolutionsBefore(AdditionalDevices[i].IPv4PoolRef,
                           SprintfDash(AdditionalDevices[i].Name, DefaultSuffix)),
                v6 \in ResolutionsBefore(TRUE,
                           SprintfDash(AdditionalDevices[i].Name, DefaultSuffix \o <<"6">>)) :
                switched' = <<[device |-> AdditionalDevices[i].Name,
                               v4 |-> v4.conf, v6 |-> v6.conf,
                               out |-> AdditionalAppend(<<>>, <<>>,
                                          AdditionalIPv6(AdditionalDevices[i],
                                                         v4.conf, v4, v6))]>>
    /\ UNCHANGED <<machineVars, specVars, envVars, passVars, countVars,
                   assembled, nics, rendered, clusterVars, resolverVars>>

MergeNext ==
    \/ CallGetNetworkConfigData
    \/ SwitchDefault
    \/ SwitchAdditional

MergeSpec == MergeInit /\ [][MergeNext]_vars

\* ------------------------------------------------------------------------
\* The network config renderer (pkg/cloudinit): NewNetworkConfig(nics)
\* and Render, the validation of the devices and the document, which is the
\* sequence of its lines.

ErrMissingNetworkConfigData == New("network config data is not set")
ErrMissingMacAddress == New("mac address is not set")
ErrMissingIPAddress == New("ip address is not set")
ErrMalformedIPAddress == New("malformed ip address")
ErrMissingGateway == New("gateway is not set")

\* The address string has the CIDR form address/length.
IsPrefix(input) == Len(input) = 3 /\ input[2] = "/"

\* The gateway of the IPv4 address is looked at before anything else.
validateDeviceGatewayFirst(d) ==
    IF d.IPAddress # <<>> /\ d.Gateway = "" THEN ErrMissingGateway
    ELSE IF d.MacAddress = "" THEN ErrMissingMacAddress
    ELSE IF d.IPAddress = <<>> /\ d.IPV6Address = <<>> THEN ErrMissingIPAddress
    ELSE IF d.IPAddress # <<>> /\ ~IsPrefix(d.IPAddress) THEN ErrMalformedIPAddress
    ELSE IF d.IPV6Address # <<>> /\ ~IsPrefix(d.IPV6Address) THEN ErrMalformedIPAddress
    ELSE IF d.IPV6Address # <<>> /\ d.Gateway6 = "" THEN ErrMissingGateway
    ELSE Nil

\* The first rule the device d violates, in the order of the rules: MAC
\* address, an address of either family, the form of the addresses, the
\* gateway of each address.
validateDevice(d) ==
    IF d.MacAddress = "" THEN ErrMissingMacAddress
    ELSE IF d.IPAddress = <<>> /\ d.IPV6Address = <<>> THEN ErrMissingIPAddress
    ELSE IF d.IPAddress # <<>> /\ ~IsPrefix(d.IPAddress) THEN ErrMalformedIPAddress
    ELSE IF d.IPV6Address # <<>> /\ ~IsPrefix(d.IPV6Address) THEN ErrMalformedIPAddress
    ELSE IF d.IPAddress # <<>> /\ d.Gateway = "" THEN ErrMissingGateway
    ELSE IF d.IPV6Address # <<>> /\ d.Gateway6 = "" THEN ErrMissingGateway
    ELSE Nil

\* The validation of the devices from the i-th on: the error of the first
\* device that violates a rule.
RECURSIVE validateFrom(_, _)
validateFrom(devices, i) ==
    IF i > Len(devices) THEN Nil
    ELSE IF validateDevice(devices[i]) # Nil THEN validateDevice(devices[i])
    ELSE validateFrom(devices, i + 1)

\* The empty list is not looked for.
validateNoEmptyCheck(devices) == validateFrom(devices, 1)

validate(devices) ==
    IF Len(devices) = 0 THEN ErrMissingNetworkConfigData
    ELSE validateFrom(devices, 1)

\* An address in CIDR form as the text of the document.
AddressText(address) == address[1] \o "/" \o ToString(address[3])

\* The lines of the nameserver block of a device.
RECURSIVE NameserverLines(_)
NameserverLines(servers) ==
    IF servers = <<>> THEN <<>>
    ELSE <<"          - " \o Head(servers)>> \o NameserverLines(Tail(servers))

\* The interface entry with the IPv6 address and route before the IPv4 ones.
InterfaceLinesIPv6First(i, d) ==
    <<"    eth" \o ToString(i - 1) \o ":",
      "      match:",
      "        macaddress: " \o d.MacAddress,
      "      dhcp4: 'no'",
      "      addresses:">>
    \o (IF d.IPV6Address # <<>> THEN <<"        - " \o AddressText(d.IPV6Address)>> ELSE <<>>)
    \o (IF d.IPAddress # <<>> THEN <<"        - " \o AddressText(d.IPAddress)>> ELSE <<>>)
    \o <<"      routes:">>
    \o (IF d.IPV6Address # <<>>
        THEN <<"        - to: default", "          via: " \o d.Gateway6>> ELSE <<>>)
    \o (IF d.IPAddress # <<>>
        THEN <<"        - to: default", "          via: " \o d.Gateway>> ELSE <<>>)
    \o (IF d.DNSServers # <<>>
        THEN <<"      nameservers:", "        addresses:">> \o NameserverLines(d.DNSServers)
        ELSE <<>>)

\* The interface entry with a nameserver block even for an empty list.
InterfaceLinesAlwaysNameservers(i, d) ==
    <<"    eth" \o ToString(i - 1) \o ":",
      "      match:",
      "        macaddress: " \o d.MacAddress,
      "      dhcp4: 'no'",
      "      addresses:">>
    \o (IF d.IPAddress # <<>> THEN <<"        - " \o AddressText(d.IPAddress)>> ELSE <<>>)
    \o (IF d.IPV6Address # <<>> THEN <<"        - " \o AddressText(d.IPV6Address)>> ELSE <<>>)
    \o <<"      routes:">>
    \o (IF d.IPAddress # <<>>
        THEN <<"        - to: default", "          via: " \o d.Gateway>> ELSE <<>>)
    \o (IF d.IPV6Address # <<>>
        THEN <<"        - to: default", "          via: " \o d.Gateway6>> ELSE <<>>)
    \o <<"      nameservers:", "        addresses:">> \o NameserverLines(d.DNSServers)

\* The interfaces are named from eth1 on.
InterfaceLinesFromOne(i, d) ==
    <<"    eth" \o ToString(i) \o ":",
      "      match:",
      "        macaddress: " \o d.MacAddress,
      "      dhcp4: 'no'",
      "      addresses:">>
    \o (IF d.IPAddress # <<>> THEN <<"        - " \o AddressText(d.IPAddress)>> ELSE <<>>)
    \o (IF d.IPV6Address # <<>> THEN <<"        - " \o AddressText(d.IPV6Address)>> ELSE <<>>)
    \o <<"      routes:">>
    \o (IF d.IPAddress # <<>>
        THEN <<"        - to: default", "          via: " \o d.Gateway>> ELSE <<>>)
    \o (IF d.IPV6Address # <<>>
        THEN <<"        - to: default", "          via: " \o d.Gateway6>> ELSE <<>>)
    \o (IF d.DNSServers # <<>>
        THEN <<"      nameservers:", "        addresses:">> \o NameserverLines(d.DNSServers)
        ELSE <<>>)

\* The lines of the interface entry of the device d, the i-th of the list.
InterfaceLines(i, d) ==
    <<"    eth" \o ToString(i - 1) \o ":",
      "      match:",
      "        macaddress: " \o d.MacAddress,
      "      dhcp4: 'no'",
      "      addresses:">>
    \o (IF d.IPAddress # <<>> THEN <<"        - " \o AddressText(d.IPAddress)>> ELSE <<>>)
    \o (IF d.IPV6Address # <<>> THEN <<"        - " \o AddressText(d.IPV6Address)>> ELSE <<>>)
    \o <<"      routes:">>
    \o (IF d.IPAddress # <<>>
        THEN <<"        - to: default", "          via: " \o d.Gateway>> ELSE <<>>)
    \o (IF d.IPV6Address # <<>>
        THEN <<"        - to: default", "          via: " \o d.Gateway6>> ELSE <<>>)
    \o (IF d.DNSServers # <<>>
        THEN <<"      nameservers:", "        addresses:">> \o NameserverLines(d.DNSServers)
        ELSE <<>>)

\* The lines of the interface entries from the i-th device on.
RECURSIVE EthernetsFrom(_, _)
EthernetsFrom(devices, i) ==
    IF i > Len(devices) THEN <<>>
    ELSE InterfaceLines(i, devices[i]) \o EthernetsFrom(devices, i + 1)

\* The document of valid devices.
NetworkDocument(devices) ==
    <<"network:", "  version: 2", "  renderer: networkd", "  ethernets:">>
    \o EthernetsFrom(devices, 1)

\* Render after the validation.
Validated(devices, err) ==
    IF err # Nil
    THEN [network |-> <<>>, err |-> err]
    ELSE [network |-> NetworkDocument(devices), err |-> Nil]

\* NewNetworkConfig(devices).Render()
Render(devices) == Validated(devices, validate(devices))

\* The records a caller can make for the i-th device of a list: with or
\* without the MAC address of the net device, each address absent, bare or
\* in CIDR form, each gateway absent or set.
DeviceShapes(d) ==
    [MacAddress : {"", MacOf(d)},
     IPAddress : {<<>>, <<AddressSpec(d \o <<"-", "inet">>).Address>>,
                  AllocatedAddress(d \o <<"-", "inet">>)},
     Gateway : {"", AllocatedGateway(d \o <<"-", "inet">>)},
     IPV6Address : {<<>>, <<AddressSpec(d \o <<"-", "inet", "6">>).Address>>,
                    AllocatedAddress(d \o <<"-", "inet", "6">>)},
     Gateway6 : {"", AllocatedGateway(d \o <<"-", "inet", "6">>)},
     DNSServers : {ClusterDNSServers}]

\* With any DNS servers when the record is valid, with those of the cluster
\* when it is not.
NetworkConfigDatas(i) ==
    DeviceShapes(<<"net" \o ToString(i - 1)>>)
    \cup {[r EXCEPT !.DNSServers = <<>>] :
             r \in {x \in DeviceShapes(<<"net" \o ToString(i - 1)>>) :
                       validateDevice(x) = Nil}}

\* The empty list of devices, not yet rendered.
RenderInit ==
    /\ BootstrapDataProvided = <<>>
    /\ condition = NoCondition
    /\ IPAddresses = {}
    /\ DataSecretName = <<>>
    /\ secret = <<>>
    /\ injectorFails = FALSE
    /\ returns = <<>>
    /\ calls = <<>>
    /\ injectCalls = 0
    /\ injectSucceeded = 0
    /\ AdditionalDevices = <<>>
    /\ IPv4Config = TRUE
    /\ IPv6Config = FALSE
    /\ nets = <<>>
    /\ addresses = {}
    /\ assembled = <<>>
    /\ switched = <<>>
    /\ nics = <<>>
    /\ rendered = <<>>
    /\ ClusterIdle

\* The caller puts one more device on the list, of at most MaxDevices.
AppendDevice ==
    /\ rendered = <<>>
    /\ Len(nics) < MaxDevices
    /\ \E r \in NetworkConfigDatas(Len(nics) + 1) : nics' = Append(nics, r)
    /\ UNCHANGED <<machineVars, specVars, envVars, passVars, countVars,
                   assembled, switched, rendered, clusterVars, resolverVars>>

\* NewNetworkConfig(nics).Render(), once.
CallRender ==
    /\ rendered = <<>>
    /\ rendered' = <<Render(nics)>>
    /\ UNCHANGED <<machineVars, specVars, envVars, passVars, countVars,
                   assembled, switched, nics, clusterVars, resolverVars>>

RenderNext ==
    \/ AppendDevice
    \/ CallRender

RenderSpec == RenderInit /\ [][RenderNext]_vars

\* ------------------------------------------------------------------------
\* The reservable memory of a Proxmox node (goproxmox.APIClient).

\* The width of the unsigned integers of the model, in bits: the code's
\* uint64 scaled down, wide enough for the values of the test.
MaxBits == 5

\* The VMs of a node are at most this many.
MaxVMs == 3

\* The subtraction of unsigned integers, which wraps around.
Sub(a, b) == (a - b) % (2^MaxBits)

MsgCannotFindNode == "cannot find node with name"
MsgCannotListVMs == "cannot list vms for node"
ErrClient == New("client error")

\* The memory sizes of the nodes and of the VMs: those of the test, the
\* smallest and the largest.
MemoryTotals == {0, 1, 30, 2^MaxBits - 1}
MaxMems == {0, 1, 2^(MaxBits - 1), 29, 30, 31, 2^MaxBits - 1}

\* c.Client.Node(ctx, nodeName) and node.VirtualMachines(ctx)
Node(client) ==
    IF client.fails = "Node" THEN [node |-> <<>>, err |-> ErrClient]
    ELSE [node |-> <<[Memory |-> [Total |-> client.total]]>>, err |-> Nil]
VirtualMachines(client) ==
    IF client.fails = "VirtualMachines" THEN [vms |-> <<>>, err |-> ErrClient]
    ELSE [vms |-> client.vms, err |-> Nil]

\* One round of the loop without the comparison.
ReserveUnchecked(reservableMemory, vm) == Sub(reservableMemory, vm.MaxMem)

\* One round of the loop over the VMs.
Reserve(reservableMemory, vm) ==
    IF reservableMemory < vm.MaxMem THEN 0 ELSE Sub(reservableMemory, vm.MaxMem)

\* The loop over the VMs from the i-th on.
RECURSIVE ReserveFrom(_, _, _)
ReserveFrom(reservableMemory, list, i) ==
    IF i > Len(list) THEN reservableMemory
    ELSE ReserveFrom(Reserve(reservableMemory, list[i]), list, i + 1)

\* The function once the node is there.
WithVMs(node, listed) ==
    IF listed.err # Nil
    THEN [value |-> 0, err |-> Wrap(listed.err, MsgCannotListVMs)]
    ELSE [value |-> ReserveFrom(node.Memory.Total, listed.vms, 1), err |-> Nil]

WithNode(client, found) ==
    IF found.err # Nil
    THEN [value |-> 0, err |-> Wrap(found.err, MsgCannotFindNode)]
    ELSE WithVMs(found.node[1], VirtualMachines(client))

GetReservableMemoryBytes(client) == WithNode(client, Node(client))

\* The client of the current state.
Client == [total |-> total, vms |-> vms, fails |-> clientFails]

\* The machine is not reconciled and nothing is assembled or rendered.
ReconcilerIdle ==
    /\ BootstrapDataProvided = <<>>
    /\ condition = NoCondition
    /\ IPAddresses = {}
    /\ DataSecretName = <<>>
    /\ secret = <<>>
    /\ injectorFails = FALSE
    /\ returns = <<>>
    /\ calls = <<>>
    /\ injectCalls = 0
    /\ injectSucceeded = 0
    /\ AdditionalDevices = <<>>
    /\ IPv4Config = TRUE
    /\ IPv6Config = FALSE
    /\ nets = <<>>
    /\ addresses = {}
    /\ assembled = <<>>
    /\ switched = <<>>
    /\ nics = <<>>
    /\ rendered = <<>>

\* A node with some memory and no VM yet; the client works, or one of its
\* calls fails.
MemoryInit ==
    /\ ReconcilerIdle
    /\ total \in MemoryTotals
    /\ vms = <<>>
    /\ clientFails \in {"", "Node", "VirtualMachines"}
    /\ reservable = <<>>
    /\ NodeLocations = <<>>
    /\ located = <<>>
    /\ resolution = <<>>

\* One more VM is on the node.
AppendVM ==
    /\ reservable = <<>>
    /\ Len(vms) < MaxVMs
    /\ \E m \in MaxMems : vms' = Append(vms, [MaxMem |-> m])
    /\ UNCHANGED <<machineVars, specVars, envVars, passVars, countVars, pureVars,
                   total, clientFails, reservable, locationVars, resolverVars>>

\* GetReservableMemoryBytes(ctx, nodeName), once.
CallGetReservableMemoryBytes ==
    /\ reservable = <<>>
    /\ reservable' = <<GetReservableMemoryBytes(Client)>>
    /\ UNCHANGED <<machineVars, specVars, envVars, passVars, countVars, pureVars,
                   total, vms, clientFails, locationVars, resolverVars>>

MemoryNext ==
    \/ AppendVM
    \/ CallGetReservableMemoryBytes

MemorySpec == MemoryInit /\ [][MemoryNext]_vars

\* ------------------------------------------------------------------------
\* The node locations of the cluster status (ProxmoxCluster).

\* The two location lists of the model hold at most this many entries.
MaxLocations == 4

\* The names of machines and of Proxmox nodes the callers pass; the empty
\* string is the zero value of a node name.
MachineNames == {"machine-1", "machine-2"}
NodeNames == {"", "pve1", "pve2"}

\* NodeLocation{Node: node, Machine: corev1.LocalObjectReference{Name: machineName}}
NodeLocation(machineName, node) == [Machine |-> [Name |-> machineName], Node |-> node]

\* new(NodeLocations)
NewNodeLocations == <<[ControlPlane |-> <<>>, Workers |-> <<>>]>>

\* The list of a role in the status c, a pointer that is not nil.
LocationsOf(c, isControlPlane) ==
    IF isControlPlane THEN c[1].ControlPlane ELSE c[1].Workers

\* The status c with the list of a role replaced.
WithLocations(c, isControlPlane, list) ==
    IF isControlPlane THEN <<[c[1] EXCEPT !.ControlPlane = list]>>
    ELSE <<[c[1] EXCEPT !.Workers = list]>>

\* The loop of GetNode from the i-th entry on: the node of the first entry
\* of the machine.
RECURSIVE NodeFrom(_, _, _)
NodeFrom(list, machineName, i) ==
    IF i > Len(list) THEN ""
    ELSE IF list[i].Machine.Name = machineName THEN list[i].Node
    ELSE NodeFrom(list, machineName, i + 1)

GetNode(c, machineName, isControlPlane) ==
    IF c = <<>> THEN ""
    ELSE NodeFrom(LocationsOf(c, isControlPlane), machineName, 1)

HasMachine(c, machineName, isControlPlane) ==
    GetNode(c, machineName, isControlPlane) # ""

addNodeLocation(c, loc, isControlPlane) ==
    WithLocations(c, isControlPlane, Append(LocationsOf(c, isControlPlane), loc))

\* AddNodeLocation once the status has node locations.
AddToLocations(c, loc, isControlPlane) ==
    IF ~HasMachine(c, loc.Machine.Name, isControlPlane)
    THEN addNodeLocation(c, loc, isControlPlane)
    ELSE c

AddNodeLocation(c, loc, isControlPlane) ==
    AddToLocations(IF c = <<>> THEN NewNodeLocations ELSE c, loc, isControlPlane)

\* append(list[:i], list[i+1:]...) on the array the ranged slice shares: the
\* entries after the i-th move one place down, the last place keeps its entry.
ShiftDown(backing, length, i) ==
    [k \in DOMAIN backing |-> IF k >= i /\ k < length THEN backing[k + 1] ELSE backing[k]]

\* The loop of RemoveNodeLocation from the i-th entry of the ranged slice
\* on; length is the length of the list of the status, which shrinks while
\* the loop ranges over the entries the slice had at first.  Slicing from
\* beyond the length panics.
RECURSIVE RemoveFrom(_, _, _, _)
RemoveFrom(backing, length, i, machineName) ==
    IF i > Len(backing) THEN [list |-> SubSeq(backing, 1, length), panic |-> FALSE]
    ELSE IF backing[i].Machine.Name # machineName
    THEN RemoveFrom(backing, length, i + 1, machineName)
    ELSE IF i > length THEN [list |-> SubSeq(backing, 1, length), panic |-> TRUE]
    ELSE RemoveFrom(ShiftDown(backing, length, i), length - 1, i + 1, machineName)

\* RemoveNodeLocation once the loop has run.
Removed(c, isControlPlane, out) ==
    [c |-> WithLocations(c, isControlPlane, out.list), panic |-> out.panic]

RemoveNodeLocation(c, machineName, isControlPlane) ==
    IF c = <<>> THEN [c |-> c, panic |-> FALSE]
    ELSE IF ~HasMachine(c, machineName, isControlPlane) THEN [c |-> c, panic |-> FALSE]
    ELSE Removed(c, isControlPlane,
                 RemoveFrom(LocationsOf(c, isControlPlane),
                            Len(LocationsOf(c, isControlPlane)), 1, machineName))

\* The loop of UpdateNodeLocation from the i-th entry on.
RECURSIVE UpdateFrom(_, _, _, _, _)
UpdateFrom(c, machineName, node, isControlPlane, i) ==
    IF i > Len(LocationsOf(c, isControlPlane)) THEN [c |-> c, result |-> FALSE]
    ELSE IF LocationsOf(c, isControlPlane)[i].Machine.Name # machineName
    THEN UpdateFrom(c, machineName, node, isControlPlane, i + 1)
    ELSE IF LocationsOf(c, isControlPlane)[i].Node # node
    THEN [c |-> WithLocations(c, isControlPlane,
                    [LocationsOf(c, isControlPlane) EXCEPT ![i].Node = node]),
          result |-> TRUE]
    ELSE [c |-> c, result |-> FALSE]

UpdateNodeLocation(c, machineName, node, isControlPlane) ==
    IF ~HasMachine(c, machineName, isControlPlane)
    THEN [c |-> AddNodeLocation(c, NodeLocation(machineName, node), isControlPlane),
          result |-> TRUE]
    ELSE UpdateFrom(c, machineName, node, isControlPlane, 1)

\* A cluster whose status has no node locations yet.
LocationInit ==
    /\ ReconcilerIdle
    /\ total = 0
    /\ vms = <<>>
    /\ clientFails = ""
    /\ reservable = <<>>
    /\ NodeLocations = <<>>
    /\ located = <<>>
    /\ resolution = <<>>

\* The two lists of a status stay within the bound of the model.
WithinBound(c) ==
    c # <<>> => Len(c[1].ControlPlane) + Len(c[1].Workers) <= MaxLocations

\* The call that was made and what it returned.
LocationCall(fn, machineName, node, isControlPlane, result, panic) ==
    <<[fn |-> fn, machineName |-> machineName, node |-> node,
       isControlPlane |-> isControlPlane, result |-> result, panic |-> panic]>>

CallAddNodeLocation ==
    \E machineName \in MachineNames, node \in NodeNames, isControlPlane \in BOOLEAN :
        /\ NodeLocations' =
               AddNodeLocation(NodeLocations, NodeLocation(machineName, node), isControlPlane)
        /\ WithinBound(NodeLocations')
        /\ located' = LocationCall("AddNodeLocation", machineName, node, isControlPlane,
                                   FALSE, FALSE)
        /\ UNCHANGED <<machineVars, specVars, envVars, passVars, countVars, pureVars,
                       memoryVars, resolverVars>>

CallUpdateNodeLocation ==
    \E machineName \in MachineNames, node \in NodeNames, isControlPlane \in BOOLEAN :
        /\ NodeLocations' =
               UpdateNodeLocation(NodeLocations, machineName, node, isControlPlane).c
        /\ WithinBound(NodeLocations')
        /\ located' = LocationCall("UpdateNodeLocation", machineName, node, isControlPlane,
               UpdateNodeLocation(NodeLocations, machineName, node, isControlPlane).result,
               FALSE)
        /\ UNCHANGED <<machineVars, specVars, envVars, passVars, countVars, pureVars,
                       memoryVars, resolverVars>>

CallRemoveNodeLocation ==
    \E machineName \in MachineNames, isControlPlane \in BOOLEAN :
        /\ NodeLocations' = RemoveNodeLocation(NodeLocations, machineName, isControlPlane).c
        /\ located' = LocationCall("RemoveNodeLocation", machineName, "", isControlPlane,
               FALSE, RemoveNodeLocation(NodeLocations, machineName, isControlPlane).panic)
        /\ UNCHANGED <<machineVars, specVars, envVars, passVars, countVars, pureVars,
                       memoryVars, resolverVars>>

LocationNext ==
    \/ CallAddNodeLocation
    \/ CallUpdateNodeLocation
    \/ CallRemoveNodeLocation

LocationSpec == LocationInit /\ [][LocationNext]_vars

\* ------------------------------------------------------------------------
\* getNetworkConfigDataForDevice applied on its own, to any device name.

\* The device names a caller resolves: a bare name, names with a suffix and
\* a name with two dashes.
DeviceNames ==
    {<<"net0">>, <<"net0", "-", "inet">>, <<"net0", "-", "inet", "6">>,
     <<"net1", "-", "inet">>, <<"net", "-", "1", "-", "inet">>}

\* The keys the net devices of a VM config can have, and the VM configs:
\* each key absent, without a MAC address or with its own.
NetKeys == {<<"net0">>, <<"net1">>, <<"net">>, <<"net0", "-", "inet">>}
NetConfigs ==
    UNION {{f \in [S -> {""} \cup {MacOf(k) : k \in S}] :
               \A k \in S : f[k] \in {"", MacOf(k)}} : S \in SUBSET NetKeys}

\* Any VM config and any set of allocated addresses.
ResolveInit ==
    /\ BootstrapDataProvided = <<>>
    /\ condition = NoCondition
    /\ IPAddresses = {}
    /\ DataSecretName = <<>>
    /\ secret = <<>>
    /\ injectorFails = FALSE
    /\ returns = <<>>
    /\ calls = <<>>
    /\ injectCalls = 0
    /\ injectSucceeded = 0
    /\ AdditionalDevices = <<>>
    /\ IPv4Config = TRUE
    /\ IPv6Config = FALSE
    /\ nets \in NetConfigs
    /\ addresses \in SUBSET DeviceNames
    /\ NothingApplied

\* getNetworkConfigDataForDevice(ctx, machineScope, device), once.
CallGetNetworkConfigDataForDevice ==
    /\ resolution = <<>>
    /\ \E device \in DeviceNames :
          resolution' = <<[device |-> device,
                           out |-> getNetworkConfigDataForDevice(MachineScope, device)]>>
    /\ UNCHANGED <<machineVars, specVars, envVars, passVars, countVars, pureVars,
                   clusterVars>>

ResolveSpec == ResolveInit /\ [][CallGetNetworkConfigDataForDevice]_vars

\* ------------------------------------------------------------------------
\* What the properties speak of.

\* The idempotency guard, as the pass reads it.
Guard == BootstrapDataProvided # <<>> /\ BootstrapDataProvided[1]

\* The step is a reconcile pass.
PassStep == returns' # <<>>

\* The functions of the collaborators the pass that just ended called.
Called == {calls[i].fn : i \in DOMAIN calls}

\* Step 2 passes: the status has an address of the default device.
HasIPAddress == IPAddresses # {}

\* Step 3 passes: a net device is discovered and all of them have a MAC.
AllMacs == nets # <<>> /\ \A d \in DOMAIN nets : nets[d] # ""

\* Step 4 passes: the secret is named, exists and holds the value key.
SecretOK ==
    /\ DataSecretName # <<>>
    /\ secret # <<>>
    /\ secret \in {<<[value |-> v]>> : v \in {"#cloud-config"}}

\* Step 6 fails: a device name the specs ask an address for has no MAC
\* address under its net device, or no allocated address.
NoMacFor(k) == Cut(k, "-") \notin DOMAIN nets \/ nets[Cut(k, "-")] = ""
AssemblerFails == \E k \in ConfiguredKeys : NoMacFor(k) \/ k \notin addresses

\* ------------------------------------------------------------------------
\* C1: once the guard is true, every pass returns (false, nil), calls no
\* collaborator and changes neither the guard nor the condition.
C1_Idempotent ==
    [][(PassStep /\ Guard) =>
         /\ returns' = <<FALSE, Nil>>
         /\ calls' = <<>>
         /\ UNCHANGED <<BootstrapDataProvided, condition, countVars>>]_vars

\* A pass has run on a machine that had the data already.
C1_Witness == Guard /\ returns = <<FALSE, Nil>> /\ calls = <<>>

\* C2 as claimed: Inject is executed at most once for the machine.
C2_InjectCalledAtMostOnce == injectCalls <= 1

\* C2 as amended: Inject returns success at most once, and after it did no
\* pass calls Inject again (an Inject that failed is called again).
C2_InjectSucceedsAtMostOnce ==
    /\ [](injectSucceeded <= 1)
    /\ [][(PassStep /\ injectSucceeded >= 1) =>
            ("Inject" \notin {calls'[i].fn : i \in DOMAIN calls'}
             /\ UNCHANGED countVars)]_vars

\* Inject failed in one pass and succeeded in a later one.
C2_Witness == injectCalls = 2 /\ injectSucceeded = 1

\* C3: the guard is true exactly when an earlier Inject returned success;
\* only the pass whose Inject succeeded sets it, and no pass clears it.
C3_GuardLifecycle ==
    /\ [](Guard <=> injectSucceeded >= 1)
    /\ [][(PassStep /\ ~Guard /\ Guard') =>
            /\ returns' = <<FALSE, Nil>>
            /\ calls'[Len(calls')] = InjectCall(Nil)
            /\ injectSucceeded' = injectSucceeded + 1]_vars
    /\ [][Guard => Guard']_vars

\* The guard was set after an earlier pass had failed to inject.
C3_Witness == Guard /\ condition.reason = VMProvisionFailedReason

\* C4: when Inject returns an error the pass marks the condition with the
\* reason VMProvisionFailed whatever the reason was, returns (false, err)
\* with err # nil and leaves the guard false.
C4_InjectFailure ==
    [][(PassStep /\ ~Guard /\ HasIPAddress /\ AllMacs /\ SecretOK /\ ~AssemblerFails
          /\ injectorFails) =>
         /\ "Inject" \in {calls'[i].fn : i \in DOMAIN calls'}
         /\ condition'.status = "False"
         /\ condition'.reason = VMProvisionFailedReason
         /\ returns'[1] = FALSE
         /\ returns'[2] # Nil
         /\ ~Guard'
         /\ injectSucceeded' = injectSucceeded]_vars

\* A pass has just failed to inject.
C4_Witness ==
    /\ returns = <<FALSE, Wrap(ErrInjectorFailed, MsgInject)>>
    /\ condition.reason = VMProvisionFailedReason
    /\ ~Guard

\* C5: with the guard false and no IP address, the pass marks the condition
\* with the reason WaitingForStaticIPAllocation and warning severity,
\* returns (true, nil), leaves the guard false and calls no collaborator.
C5_NoIPAddress ==
    [][(PassStep /\ ~Guard /\ ~HasIPAddress) =>
         /\ condition'.status = "False"
         /\ condition'.reason = WaitingForStaticIPAllocationReason
         /\ condition'.severity = ConditionSeverityWarning
         /\ returns' = <<TRUE, Nil>>
         /\ UNCHANGED BootstrapDataProvided
         /\ calls' = <<>>]_vars

\* A pass has just stopped for the missing IP address, where the secret
\* and everything else was there.
C5_Witness ==
    /\ returns = <<TRUE, Nil>>
    /\ ~HasIPAddress /\ AllMacs /\ SecretOK /\ ~AssemblerFails
    /\ condition.reason = WaitingForStaticIPAllocationReason

\* C6: with the guard false and an IP address, if no net device is
\* discovered or one of them lacks a MAC address, the pass returns
\* (true, nil), leaves the condition and the guard as they were and calls
\* no collaborator.
C6_NoMacAddress ==
    [][(PassStep /\ ~Guard /\ HasIPAddress /\ ~AllMacs) =>
         /\ returns' = <<TRUE, Nil>>
         /\ UNCHANGED <<BootstrapDataProvided, condition>>
         /\ calls' = <<>>]_vars

\* A pass has just stopped for a net device without MAC address, and the
\* condition of an earlier failure is still there.
C6_Witness ==
    /\ returns = <<TRUE, Nil>>
    /\ HasIPAddress /\ nets # <<>> /\ ~AllMacs
    /\ condition.reason = CloningFailedReason

\* C7: when the retrieval of the bootstrap data fails (no secret named,
\* secret not found, value key absent), the pass marks the condition with
\* the reason CloningFailed, returns (false, err) with err # nil, leaves the
\* guard false and calls neither the address lookup nor Inject.
C7_BootstrapDataFailure ==
    [][(PassStep /\ ~Guard /\ HasIPAddress /\ AllMacs /\ ~SecretOK) =>
         /\ condition'.status = "False"
         /\ condition'.reason = CloningFailedReason
         /\ returns'[1] = FALSE
         /\ returns'[2] # Nil
         /\ returns'[2] = (IF DataSecretName = <<>> THEN New(MsgNoBootstrapData)
                           ELSE IF secret = <<>> THEN Wrap(ErrNotFound, MsgSecretRetrieve)
                           ELSE New(MsgSecretValueMissing))
         /\ condition'.message = returns'[2]
         /\ UNCHANGED BootstrapDataProvided
         /\ calls' = (IF DataSecretName = <<>> THEN <<>>
                      ELSE IF secret = <<>> THEN <<SecretCall(ErrNotFound)>>
                      ELSE <<SecretCall(Nil)>>)]_vars

\* A pass has just failed on a secret without the value key.
C7_Witness ==
    /\ returns = <<FALSE, New(MsgSecretValueMissing)>>
    /\ condition.reason = CloningFailedReason
    /\ Called = {"GetBootstrapSecret"}

\* C8: when the assembler fails, the pass marks the condition with the
\* reason WaitingForStaticIPAllocation, returns (false, err) with err # nil,
\* leaves the guard false and does not call Inject.
C8_AssemblerFailure ==
    [][(PassStep /\ ~Guard /\ HasIPAddress /\ AllMacs /\ SecretOK /\ AssemblerFails) =>
         /\ condition'.status = "False"
         /\ condition'.reason = WaitingForStaticIPAllocationReason
         /\ returns'[1] = FALSE
         /\ returns'[2] # Nil
         /\ UNCHANGED BootstrapDataProvided
         /\ "Inject" \notin {calls'[i].fn : i \in DOMAIN calls'}]_vars

\* A pass has just failed in the assembler, on an additional device that
\* the VM config does not hold.
C8_Witness ==
    /\ returns = <<FALSE, Wrap(New(MsgNoMac), MsgDeviceConfig)>>
    /\ condition.reason = WaitingForStaticIPAllocationReason
    /\ AllMacs

\* The pass stops because an address is not allocated or a MAC address is
\* not assigned: at step 2, at step 3 or in the assembler.
StopsForAddressOrMac ==
    ~HasIPAddress \/ ~AllMacs \/ (SecretOK /\ AssemblerFails)

\* C9 as claimed: every pass that stops because an address is not yet
\* allocated or a MAC address is not yet assigned returns (true, nil).
C9_TransientNeverAnError ==
    [][(PassStep /\ ~Guard /\ StopsForAddressOrMac) => returns' = <<TRUE, Nil>>]_vars

\* C9 as amended: a pass that stops at the checks of the steps 2 and 3
\* returns (true, nil); a pass that stops in the assembler, because a device
\* has no allocated address or no MAC address, returns (false, err) with
\* err # nil.
C9_TransientAtChecksOnly ==
    [][(PassStep /\ ~Guard /\ StopsForAddressOrMac) =>
         IF ~HasIPAddress \/ ~AllMacs
         THEN returns' = <<TRUE, Nil>>
         ELSE returns'[1] = FALSE /\ returns'[2] # Nil]_vars

\* A pass has just failed in the assembler on a device without allocated
\* address.
C9_Witness ==
    /\ returns = <<FALSE, Wrap(Wrap(ErrNotFound, MsgFindIPAddress), MsgDeviceConfig)>>
    /\ HasIPAddress /\ AllMacs
    /\ \E i \in DOMAIN calls : calls[i].fn = "findIPAddress" /\ calls[i].err = ErrNotFound

\* Everything a pass needs is there.
EnvGood ==
    HasIPAddress /\ AllMacs /\ SecretOK /\ ~AssemblerFails /\ ~injectorFails

\* C10: if from some point on everything a pass needs stays there, the
\* retried passes set the guard, whatever failed before; it stays set and
\* every later pass returns (false, nil).
C10_EventuallyProvided ==
    (<>[]EnvGood) => <>[](Guard /\ (returns # <<>> => returns = <<FALSE, Nil>>))

\* The guard was set on a machine whose condition holds an earlier failure
\* of the retrieval of the bootstrap data.
C10_Witness == Guard /\ EnvGood /\ condition.reason = CloningFailedReason

\* ------------------------------------------------------------------------
\* What the properties of the assembler speak of.

\* getNetworkConfigData returned, without error.
Assembled == assembled # <<>> /\ assembled[1].err = Nil

\* The additional device references a pool.
HasPool(nic) == nic.IPv4PoolRef \/ nic.IPv6PoolRef

\* The positions in the returned list of the records with the MAC address
\* of the net device d.
RecordsOf(d) ==
    {j \in DOMAIN assembled[1].data : assembled[1].data[j].MacAddress = MacOf(d)}

\* The DNS servers the record of the additional device nic is to hold.
DNSServersFor(nic) ==
    IF nic.DNSServers # <<>> THEN nic.DNSServers ELSE ClusterDNSServers

\* C11: the record of every additional device that references a pool holds
\* the DNS override list of the device when that is not empty, whichever
\* pools the device references, and the list of the cluster when it is.
C11_DNSOverride ==
    Assembled =>
        \A i \in DOMAIN AdditionalDevices :
            HasPool(AdditionalDevices[i]) =>
                /\ RecordsOf(AdditionalDevices[i].Name) # {}
                /\ \A j \in RecordsOf(AdditionalDevices[i].Name) :
                       assembled[1].data[j].DNSServers
                           = DNSServersFor(AdditionalDevices[i])

\* C12: with one address family configured for the cluster the record of
\* the default device carries only that family: with an IPv6 pool only,
\* IPV6Address and Gateway6 hold the allocated address and gateway and
\* IPAddress and Gateway are empty; with an IPv4 pool only, IPAddress and
\* Gateway are set and IPV6Address and Gateway6 are empty.
C12_SingleFamilyDefault ==
    Assembled =>
        /\ (IPv6Config /\ ~IPv4Config) =>
              /\ assembled[1].data[1].MacAddress = MacOf(DefaultNetworkDevice)
              /\ assembled[1].data[1].IPV6Address
                    = AllocatedAddress(<<"net0", "-", "inet", "6">>)
              /\ assembled[1].data[1].Gateway6
                    = AllocatedGateway(<<"net0", "-", "inet", "6">>)
              /\ assembled[1].data[1].IPAddress = <<>>
              /\ assembled[1].data[1].Gateway = ""
        /\ (IPv4Config /\ ~IPv6Config) =>
              /\ assembled[1].data[1].MacAddress = MacOf(DefaultNetworkDevice)
              /\ assembled[1].data[1].IPAddress
                    = AllocatedAddress(<<"net0", "-", "inet">>)
              /\ assembled[1].data[1].Gateway
                    = AllocatedGateway(<<"net0", "-", "inet">>)
              /\ assembled[1].data[1].IPV6Address = <<>>
              /\ assembled[1].data[1].Gateway6 = ""

\* C13: every record of a list that getNetworkConfigData returns without
\* error has a MAC address and an IPv4 or an IPv6 address.
C13_RecordsComplete ==
    Assembled =>
        \A j \in DOMAIN assembled[1].data :
            /\ assembled[1].data[j].MacAddress # ""
            /\ \/ assembled[1].data[j].IPAddress # <<>>
               \/ assembled[1].data[j].IPV6Address # <<>>

\* A list was returned for a machine that names an additional device
\* without pool after one with a pool.
C13_Witness ==
    /\ Assembled
    /\ Len(AdditionalDevices) = 2
    /\ HasPool(AdditionalDevices[1])
    /\ ~HasPool(AdditionalDevices[2])
    /\ Len(assembled[1].data) = 2

\* The net devices that are resolved: the default one and the additional
\* ones that reference a pool.
ResolvedDevices ==
    {DefaultNetworkDevice}
    \cup {AdditionalDevices[i].Name :
             i \in {k \in DOMAIN AdditionalDevices : HasPool(AdditionalDevices[k])}}

DualStack(r, k4, k6) ==
    /\ r.IPAddress = AllocatedAddress(k4)
    /\ r.Gateway = AllocatedGateway(k4)
    /\ r.IPV6Address = AllocatedAddress(k6)
    /\ r.Gateway6 = AllocatedGateway(k6)

\* The net devices that are resolved for IPv4 and for IPv6.
DualStackDevices ==
    (IF IPv4Config /\ IPv6Config THEN {DefaultNetworkDevice} ELSE {})
    \cup {AdditionalDevices[i].Name :
             i \in {k \in DOMAIN AdditionalDevices :
                       AdditionalDevices[k].IPv4PoolRef /\ AdditionalDevices[k].IPv6PoolRef}}

\* C15: a device resolved for IPv4 and for IPv6 has exactly one record in
\* the list getNetworkConfigData returns, with the IPv4 address and gateway
\* of its IPv4 resolution and the IPv6 address and gateway of its IPv6
\* resolution; the switch makes that one record of two resolutions with the
\* same MAC address, and of two resolutions with different MAC addresses
\* it makes an error and no record.
C15_MergeOrFail ==
    /\ Assembled =>
          \A d \in DualStackDevices :
              /\ Cardinality(RecordsOf(d)) = 1
              /\ \A j \in RecordsOf(d) :
                     DualStack(assembled[1].data[j], d \o <<"-", "inet">>,
                               d \o <<"-", "inet", "6">>)
    /\ (switched # <<>> /\ switched[1].v4.MacAddress # "") =>
          IF switched[1].v4.MacAddress = switched[1].v6.MacAddress
          THEN /\ switched[1].out.err = Nil
               /\ Len(switched[1].out.data) = 1
               /\ switched[1].out.data[1].MacAddress = switched[1].v4.MacAddress
               /\ DualStack(switched[1].out.data[1],
                            switched[1].device \o <<"-", "inet">>,
                            switched[1].device \o <<"-", "inet", "6">>)
          ELSE /\ switched[1].out.err # Nil
               /\ switched[1].out.data = <<>>

\* The switch was applied to the two resolutions of an additional device
\* that hold different MAC addresses.
C15_Witness ==
    /\ switched # <<>>
    /\ switched[1].device # DefaultNetworkDevice
    /\ switched[1].v4.MacAddress # ""
    /\ switched[1].v4.MacAddress # switched[1].v6.MacAddress
    /\ switched[1].out.err = New(MsgAdditionalMacMismatch)

\* The additional devices that reference a pool, in the order the machine
\* names them.
PooledDevices == SelectSeq(AdditionalDevices, HasPool)

\* C16: the list getNetworkConfigData returns is the record of the default
\* device followed by one record for each additional device that references
\* a pool, in the order of the machine's list; a device without pool
\* reference has no record.
C16_OutputOrder ==
    Assembled =>
        /\ Len(assembled[1].data) = 1 + Len(PooledDevices)
        /\ assembled[1].data[1].MacAddress = MacOf(DefaultNetworkDevice)
        /\ \A i \in DOMAIN PooledDevices :
               assembled[1].data[i + 1].MacAddress = MacOf(PooledDevices[i].Name)

\* A list was returned for a machine that names net2 before net1, both
\* with a pool.
C16_Witness ==
    /\ Assembled
    /\ Len(PooledDevices) = 2
    /\ AdditionalDevices[1].Name = <<"net2">>
    /\ assembled[1].data[2].MacAddress = MacOf(<<"net2">>)
    /\ assembled[1].data[3].MacAddress = MacOf(<<"net1">>)

\* The device names an additional device is resolved under, in order.
KeysOf(nic) ==
    (IF nic.IPv4PoolRef THEN <<nic.Name \o <<"-", "inet">>>> ELSE <<>>)
    \o (IF nic.IPv6PoolRef THEN <<nic.Name \o <<"-", "inet", "6">>>> ELSE <<>>)

RECURSIVE KeysFrom(_)
KeysFrom(i) ==
    IF i > Len(AdditionalDevices) THEN <<>>
    ELSE KeysOf(AdditionalDevices[i]) \o KeysFrom(i + 1)

\* The device names one call of getNetworkConfigData resolves when nothing
\* fails, in order.
ResolverKeys ==
    (IF IPv4Config THEN <<<<"net0", "-", "inet">>>> ELSE <<>>)
    \o (IF IPv6Config THEN <<<<"net0", "-", "inet", "6">>>> ELSE <<>>)
    \o KeysFrom(1)

\* The positions of ResolverKeys whose resolution fails, and the first.
Failing == {i \in DOMAIN ResolverKeys :
               NoMacFor(ResolverKeys[i]) \/ ResolverKeys[i] \notin addresses}
FirstFailing == CHOOSE i \in Failing : \A j \in Failing : i <= j

\* C17: when the resolution of a device fails, of the default device or of
\* an additional one at any position, getNetworkConfigData returns an
\* error and no record, and looks up no address after the failure: the
\* lookups are those of the device names before the failing one, and that
\* of the failing one when it has a MAC address.  When none fails, all are
\* looked up and no error is returned.
C17_AllOrNothing ==
    assembled # <<>> =>
        IF Failing = {}
        THEN /\ assembled[1].err = Nil
             /\ assembled[1].lookups = ResolverKeys
        ELSE /\ assembled[1].err # Nil
             /\ assembled[1].data = <<>>
             /\ assembled[1].lookups
                   = SubSeq(ResolverKeys, 1, FirstFailing - 1)
                     \o (IF NoMacFor(ResolverKeys[FirstFailing]) THEN <<>>
                         ELSE <<ResolverKeys[FirstFailing]>>)

\* getNetworkConfigData failed on the first additional device, after the
\* records of the default device were made and before a second additional
\* device was resolved.
C17_Witness ==
    /\ assembled # <<>>
    /\ assembled[1].err # Nil
    /\ assembled[1].data = <<>>
    /\ IPv4Config /\ IPv6Config
    /\ Len(PooledDevices) = 2
    /\ Failing # {}
    /\ FirstFailing = 3
    /\ Len(assembled[1].lookups) = 3

\* ------------------------------------------------------------------------
\* What the properties of the renderer speak of.

Range(f) == {f[i] : i \in DOMAIN f}

\* The rules a device can violate.
MacMissing(d) == d.MacAddress = ""
AddressMissing(d) == d.IPAddress = <<>> /\ d.IPV6Address = <<>>
NoPrefix(address) == address # <<>> /\ "/" \notin Range(address)
Malformed(d) == NoPrefix(d.IPAddress) \/ NoPrefix(d.IPV6Address)
GatewayMissing(d) ==
    \/ d.IPAddress # <<>> /\ d.Gateway = ""
    \/ d.IPV6Address # <<>> /\ d.Gateway6 = ""

\* The error of the first rule d violates in the order MAC address, missing
\* address, malformed address, missing gateway.
FirstViolated(d) ==
    CASE MacMissing(d) -> ErrMissingMacAddress
      [] ~MacMissing(d) /\ AddressMissing(d) -> ErrMissingIPAddress
      [] ~MacMissing(d) /\ ~AddressMissing(d) /\ Malformed(d) -> ErrMalformedIPAddress
      [] ~MacMissing(d) /\ ~AddressMissing(d) /\ ~Malformed(d) /\ GatewayMissing(d)
           -> ErrMissingGateway
      [] OTHER -> Nil

\* The positions of the devices of the list that violate a rule, and the
\* first of them.
Invalid == {i \in DOMAIN nics : FirstViolated(nics[i]) # Nil}
FirstInvalid == CHOOSE i \in Invalid : \A j \in Invalid : i <= j

\* C18: Render validates the devices in the order of the list and, for each
\* device, the MAC address first, then the missing address, then the
\* malformed address, then the missing gateway; it returns the error of
\* the first rule violated, and that alone, with an empty document.
C18_ValidationOrder ==
    (rendered # <<>> /\ nics # <<>>) =>
        IF Invalid = {}
        THEN rendered[1].err = Nil
        ELSE /\ rendered[1].err = FirstViolated(nics[FirstInvalid])
             /\ rendered[1].network = <<>>

\* A list was rendered whose first device is valid and whose second has no
\* MAC address, a bare IPv4 address and no gateway.
C18_Witness ==
    /\ rendered # <<>>
    /\ Len(nics) = 2
    /\ FirstViolated(nics[1]) = Nil
    /\ MacMissing(nics[2]) /\ Malformed(nics[2]) /\ nics[2].Gateway = ""
    /\ rendered[1].err = ErrMissingMacAddress

\* C19: Render of the empty list returns ErrMissingNetworkConfigData and an
\* empty document; Render of a list that is not empty never returns
\* ErrMissingNetworkConfigData.
C19_EmptyList ==
    rendered # <<>> =>
        IF nics = <<>>
        THEN rendered[1] = [network |-> <<>>, err |-> ErrMissingNetworkConfigData]
        ELSE rendered[1].err # ErrMissingNetworkConfigData

\* The empty list was rendered.
C19_Witness ==
    /\ rendered # <<>>
    /\ nics = <<>>
    /\ rendered[1].err = ErrMissingNetworkConfigData

\* The case ValidNetworkConfigMultipleNics of TestNetworkConfig_Render and
\* the document it expects.
ValidNetworkConfigMultipleNics ==
    <<[MacAddress |-> "92:60:a0:5b:22:c2", IPAddress |-> <<"10.10.10.12", "/", 24>>,
       Gateway |-> "10.10.10.1", IPV6Address |-> <<>>, Gateway6 |-> "",
       DNSServers |-> <<"8.8.8.8", "8.8.4.4">>],
      [MacAddress |-> "b4:87:18:bf:a3:60", IPAddress |-> <<"196.168.100.124", "/", 24>>,
       Gateway |-> "196.168.100.254", IPV6Address |-> <<>>, Gateway6 |-> "",
       DNSServers |-> <<"8.8.8.8", "8.8.4.4">>]>>

expectedValidNetworkConfigMultipleNics ==
    <<"network:",
      "  version: 2",
      "  renderer: networkd",
      "  ethernets:",
      "    eth0:",
      "      match:",
      "        macaddress: 92:60:a0:5b:22:c2",
      "      dhcp4: 'no'",
      "      addresses:",
      "        - 10.10.10.12/24",
      "      routes:",
      "        - to: default",
      "          via: 10.10.10.1",
      "      nameservers:",
      "        addresses:",
      "          - 8.8.8.8",
      "          - 8.8.4.4",
      "    eth1:",
      "      match:",
      "        macaddress: b4:87:18:bf:a3:60",
      "      dhcp4: 'no'",
      "      addresses:",
      "        - 196.168.100.124/24",
      "      routes:",
      "        - to: default",
      "          via: 196.168.100.254",
      "      nameservers:",
      "        addresses:",
      "          - 8.8.8.8",
      "          - 8.8.4.4">>

\* The line that names the i-th interface entry, counted from 0, and the
\* lines of the rendered document that name an interface.
NameLine(i) == "    eth" \o ToString(i) \o ":"
NameLinesAt ==
    {k \in DOMAIN rendered[1].network :
        \E i \in 0..MaxDevices : rendered[1].network[k] = NameLine(i)}

\* The lines of the i-th interface entry of the rendered document, from the
\* line that names it to the line before the next name.
EntryStart(i) ==
    CHOOSE k \in DOMAIN rendered[1].network : rendered[1].network[k] = NameLine(i - 1)
EntryEnd(i) ==
    IF i < Len(nics) THEN EntryStart(i + 1) - 1 ELSE Len(rendered[1].network)
Entry(i) == Range(SubSeq(rendered[1].network, EntryStart(i), EntryEnd(i)))

\* The i-th entry holds the MAC address, the addresses, the routes and the
\* DNS servers of the i-th device, and the MAC address of no other.
Carries(i) ==
    /\ ("        macaddress: " \o nics[i].MacAddress) \in Entry(i)
    /\ \A j \in DOMAIN nics \ {i} :
           ("        macaddress: " \o nics[j].MacAddress) \notin Entry(i)
    /\ nics[i].IPAddress # <<>> =>
          /\ ("        - " \o nics[i].IPAddress[1] \o "/"
                 \o ToString(nics[i].IPAddress[3])) \in Entry(i)
          /\ ("          via: " \o nics[i].Gateway) \in Entry(i)
    /\ nics[i].IPV6Address # <<>> =>
          /\ ("        - " \o nics[i].IPV6Address[1] \o "/"
                 \o ToString(nics[i].IPV6Address[3])) \in Entry(i)
          /\ ("          via: " \o nics[i].Gateway6) \in Entry(i)
    /\ \A server \in Range(nics[i].DNSServers) : ("          - " \o server) \in Entry(i)

\* C20: the document rendered of n valid devices has exactly n interface
\* entries, the i-th (from 0) named eth and i and holding the MAC address,
\* the addresses, the routes and the DNS servers of the i-th device; when a
\* device of the list is not valid nothing is rendered.  The two devices of
\* the test render to the document the test expects.
C20_InterfaceNaming ==
    (rendered # <<>> /\ nics # <<>>) =>
        /\ IF Invalid = {}
           THEN /\ rendered[1].err = Nil
                /\ Cardinality(NameLinesAt) = Len(nics)
                /\ \A i \in DOMAIN nics :
                       /\ \E k \in NameLinesAt : rendered[1].network[k] = NameLine(i - 1)
                       /\ i < Len(nics) => EntryStart(i) < EntryStart(i + 1)
                       /\ Carries(i)
           ELSE /\ rendered[1].err # Nil
                /\ rendered[1].network = <<>>
        /\ nics = ValidNetworkConfigMultipleNics =>
              rendered[1].network = expectedValidNetworkConfigMultipleNics

\* The two devices of the test were rendered.
C20_Witness ==
    /\ rendered # <<>>
    /\ nics = ValidNetworkConfigMultipleNics
    /\ rendered[1].err = Nil
    /\ Cardinality(NameLinesAt) = 2

\* ------------------------------------------------------------------------
\* The parts of an interface entry of the rendered document.

\* The lines of the i-th interface entry, in the order of the document.
EntrySeq(i) == SubSeq(rendered[1].network, EntryStart(i), EntryEnd(i))

\* The position of a line in the i-th entry.
LineAt(i, line) == CHOOSE k \in DOMAIN EntrySeq(i) : EntrySeq(i)[k] = line

\* The lines of the address list of the i-th entry: those between the key
\* of the addresses and the key of the routes.
AddressLinesOf(i) ==
    SubSeq(EntrySeq(i), LineAt(i, "      addresses:") + 1, LineAt(i, "      routes:") - 1)

\* Whether the i-th entry has a nameserver block, and the last line of the
\* entry before it.
HasNameservers(i) == "      nameservers:" \in Entry(i)
RoutesEnd(i) ==
    IF HasNameservers(i) THEN LineAt(i, "      nameservers:") - 1 ELSE Len(EntrySeq(i))

\* The lines of the route list of the i-th entry.
RouteLinesOf(i) == SubSeq(EntrySeq(i), LineAt(i, "      routes:") + 1, RoutesEnd(i))

\* The lines of the nameserver block of the i-th entry, none without one.
NameserverBlockOf(i) == SubSeq(EntrySeq(i), RoutesEnd(i) + 1, Len(EntrySeq(i)))

\* The lines of the i-th entry up to the nameserver block.
EntryBeforeNameservers(i) == SubSeq(EntrySeq(i), 1, RoutesEnd(i))

\* The line of an address and the two lines of a default route.
AddressLine(address) == "        - " \o address[1] \o "/" \o ToString(address[3])
RouteLines(gateway) == <<"        - to: default", "          via: " \o gateway>>

\* The families a device is configured for.
HasIPv4(d) == d.IPAddress # <<>>
HasIPv6(d) == d.IPV6Address # <<>>

\* The cases ValidNetworkConfigDualStack and ValidNetworkConfigIPV6 of
\* TestNetworkConfig_Render and the documents they expect.
ValidNetworkConfigDualStack ==
    <<[MacAddress |-> "92:60:a0:5b:22:c2", IPAddress |-> <<"10.10.10.12", "/", 24>>,
       Gateway |-> "10.10.10.1", IPV6Address |-> <<"2001:db8::1", "/", 64>>,
       Gateway6 |-> "2001:db8::1", DNSServers |-> <<"8.8.8.8", "8.8.4.4">>]>>

expectedValidNetworkConfigDualStack ==
    <<"network:",
      "  version: 2",
      "  renderer: networkd",
      "  ethernets:",
      "    eth0:",
      "      match:",
      "        macaddress: 92:60:a0:5b:22:c2",
      "      dhcp4: 'no'",
      "      addresses:",
      "        - 10.10.10.12/24",
      "        - 2001:db8::1/64",
      "      routes:",
      "        - to: default",
      "          via: 10.10.10.1",
      "        - to: default",
      "          via: 2001:db8::1",
      "      nameservers:",
      "        addresses:",
      "          - 8.8.8.8",
      "          - 8.8.4.4">>

ValidNetworkConfigIPV6 ==
    <<[MacAddress |-> "92:60:a0:5b:22:c2", IPAddress |-> <<>>, Gateway |-> "",
       IPV6Address |-> <<"2001:db8::1", "/", 64>>, Gateway6 |-> "2001:db8::1",
       DNSServers |-> <<"8.8.8.8", "8.8.4.4">>]>>

expectedValidNetworkConfigIPV6 ==
    <<"network:",
      "  version: 2",
      "  renderer: networkd",
      "  ethernets:",
      "    eth0:",
      "      match:",
      "        macaddress: 92:60:a0:5b:22:c2",
      "      dhcp4: 'no'",
      "      addresses:",
      "        - 2001:db8::1/64",
      "      routes:",
      "        - to: default",
      "          via: 2001:db8::1",
      "      nameservers:",
      "        addresses:",
      "          - 8.8.8.8",
      "          - 8.8.4.4">>

\* C21: in a rendered document the address list of each interface entry
\* holds exactly one address per family the device is configured for and
\* its route list exactly one default route per such family, the IPv4 ones
\* before the IPv6 ones; a device with an IPv6 address alone has the one
\* address and the one route via its IPv6 gateway.  The dual-stack device
\* and the IPv6 device of the test render to the documents the test expects.
C21_PerFamily ==
    (rendered # <<>> /\ rendered[1].err = Nil) =>
        /\ \A i \in DOMAIN nics :
              /\ AddressLinesOf(i) =
                    (IF HasIPv4(nics[i]) THEN <<AddressLine(nics[i].IPAddress)>> ELSE <<>>)
                    \o (IF HasIPv6(nics[i]) THEN <<AddressLine(nics[i].IPV6Address)>> ELSE <<>>)
              /\ RouteLinesOf(i) =
                    (IF HasIPv4(nics[i]) THEN RouteLines(nics[i].Gateway) ELSE <<>>)
                    \o (IF HasIPv6(nics[i]) THEN RouteLines(nics[i].Gateway6) ELSE <<>>)
              /\ (HasIPv6(nics[i]) /\ ~HasIPv4(nics[i])) =>
                    /\ Len(AddressLinesOf(i)) = 1
                    /\ RouteLinesOf(i) = RouteLines(nics[i].Gateway6)
        /\ nics = ValidNetworkConfigDualStack =>
              rendered[1].network = expectedValidNetworkConfigDualStack
        /\ nics = ValidNetworkConfigIPV6 =>
              rendered[1].network = expectedValidNetworkConfigIPV6

\* A dual-stack device and a device with an IPv6 address alone were
\* rendered in one document.
C21_Witness ==
    /\ rendered # <<>>
    /\ rendered[1].err = Nil
    /\ Len(nics) = 2
    /\ nics[1] = ValidNetworkConfigDualStack[1]
    /\ HasIPv6(nics[2]) /\ ~HasIPv4(nics[2])
    /\ Len(RouteLinesOf(1)) = 4
    /\ Len(RouteLinesOf(2)) = 2

\* The cases ValidNetworkConfig and ValidNetworkConfigWithoutDNS of
\* TestNetworkConfig_Render and the documents they expect.
ValidNetworkConfig ==
    <<[MacAddress |-> "92:60:a0:5b:22:c2", IPAddress |-> <<"10.10.10.12", "/", 24>>,
       Gateway |-> "10.10.10.1", IPV6Address |-> <<>>, Gateway6 |-> "",
       DNSServers |-> <<"8.8.8.8", "8.8.4.4">>]>>

expectedValidNetworkConfig ==
    <<"network:",
      "  version: 2",
      "  renderer: networkd",
      "  ethernets:",
      "    eth0:",
      "      match:",
      "        macaddress: 92:60:a0:5b:22:c2",
      "      dhcp4: 'no'",
      "      addresses:",
      "        - 10.10.10.12/24",
      "      routes:",
      "        - to: default",
      "          via: 10.10.10.1",
      "      nameservers:",
      "        addresses:",
      "          - 8.8.8.8",
      "          - 8.8.4.4">>

ValidNetworkConfigWithoutDNS ==
    <<[MacAddress |-> "92:60:a0:5b:22:c2", IPAddress |-> <<"10.10.10.12", "/", 24>>,
       Gateway |-> "10.10.10.1", IPV6Address |-> <<>>, Gateway6 |-> "",
       DNSServers |-> <<>>]>>

expectedValidNetworkConfigWithoutDNS ==
    <<"network:",
      "  version: 2",
      "  renderer: networkd",
      "  ethernets:",
      "    eth0:",
      "      match:",
      "        macaddress: 92:60:a0:5b:22:c2",
      "      dhcp4: 'no'",
      "      addresses:",
      "        - 10.10.10.12/24",
      "      routes:",
      "        - to: default",
      "          via: 10.10.10.1">>

\* The lines that list the servers, one line each in the order of the list.
RECURSIVE ServerLines(_, _)
ServerLines(servers, k) ==
    IF k > Len(servers) THEN <<>>
    ELSE <<"          - " \o servers[k]>> \o ServerLines(servers, k + 1)

\* The device without DNS servers.
WithoutDNS(d) == [d EXCEPT !.DNSServers = <<>>]

\* C22: in a rendered document the entry of a device with DNS servers ends
\* with a nameserver block that lists the servers in the order of the
\* device's list, the entry of a device without DNS servers has no
\* nameserver block, and up to the block the entry is the one the same
\* device renders to without DNS servers.  The device of the test renders
\* to the documents the test expects with and without the servers.
C22_NameserverBlock ==
    (rendered # <<>> /\ rendered[1].err = Nil) =>
        /\ \A i \in DOMAIN nics :
              /\ HasNameservers(i) <=> nics[i].DNSServers # <<>>
              /\ NameserverBlockOf(i) =
                    IF nics[i].DNSServers # <<>>
                    THEN <<"      nameservers:", "        addresses:">>
                         \o ServerLines(nics[i].DNSServers, 1)
                    ELSE <<>>
              /\ "        addresses:" \in Entry(i) <=> nics[i].DNSServers # <<>>
              /\ EntryBeforeNameservers(i) = InterfaceLines(i, WithoutDNS(nics[i]))
        /\ nics = ValidNetworkConfig => rendered[1].network = expectedValidNetworkConfig
        /\ nics = ValidNetworkConfigWithoutDNS =>
              rendered[1].network = expectedValidNetworkConfigWithoutDNS

\* The device of the test was rendered without DNS servers, in a document
\* whose second device has them.
C22_Witness ==
    /\ rendered # <<>>
    /\ rendered[1].err = Nil
    /\ Len(nics) = 2
    /\ nics[1] = ValidNetworkConfigWithoutDNS[1]
    /\ nics[2].DNSServers = <<"8.8.8.8", "8.8.4.4">>
    /\ ~HasNameservers(1)
    /\ Len(NameserverBlockOf(2)) = 4

\* ------------------------------------------------------------------------
\* What the property of the reservable memory speaks of.

\* The sum of MaxMem over the VMs of a list, as a number.
RECURSIVE SumMaxMem(_)
SumMaxMem(list) == IF list = <<>> THEN 0 ELSE Head(list).MaxMem + SumMaxMem(Tail(list))

Max(a, b) == IF a > b THEN a ELSE b

\* The lists with the VMs of a list in any order.
Reordered(list) ==
    {[i \in DOMAIN list |-> list[p[i]]] :
        p \in {q \in [DOMAIN list -> DOMAIN list] : \A i, j \in DOMAIN list :
                                                         q[i] = q[j] => i = j}}

\* C23: when the client works GetReservableMemoryBytes returns, without an
\* error, the total memory of the node less the sum of MaxMem over its VMs,
\* and 0 when the sum reaches or exceeds the total; the value is never the
\* wrapped-around difference and is the same for the VMs in any order.  With
\* a total of 30 one VM of 29, 30 and 31 leaves 1, 0 and 0 as in the test.
C23_ReservableMemory ==
    (reservable # <<>> /\ clientFails = "") =>
        /\ reservable[1].err = Nil
        /\ reservable[1].value = Max(0, total - SumMaxMem(vms))
        /\ SumMaxMem(vms) >= total => reservable[1].value = 0
        /\ reservable[1].value <= total
        /\ \A list \in Reordered(vms) :
               GetReservableMemoryBytes([Client EXCEPT !.vms = list]).value
                   = reservable[1].value
        /\ (total = 30 /\ Len(vms) = 1) =>
              /\ vms[1].MaxMem = 29 => reservable[1].value = 1
              /\ vms[1].MaxMem = 30 => reservable[1].value = 0
              /\ vms[1].MaxMem = 31 => reservable[1].value = 0

\* The memory of three VMs exceeded the total of the node at the second VM,
\* and their sum is beyond the range of the unsigned integers.
C23_Witness ==
    /\ reservable # <<>>
    /\ clientFails = ""
    /\ total = 30
    /\ Len(vms) = 3
    /\ vms[1].MaxMem < total
    /\ vms[1].MaxMem + vms[2].MaxMem > total
    /\ vms[3].MaxMem > 0
    /\ SumMaxMem(vms) >= 2^MaxBits
    /\ reservable[1].value = 0

\* ------------------------------------------------------------------------
\* What the properties of the node locations speak of.

\* The list of a role in a status, empty when the status has no locations.
ListOf(c, isControlPlane) == IF c = <<>> THEN <<>> ELSE LocationsOf(c, isControlPlane)

\* The entries of a list that are, and that are not, of a machine.
EntriesOf(list, machineName) ==
    SelectSeq(list, LAMBDA loc : loc.Machine.Name = machineName)
EntriesNotOf(list, machineName) ==
    SelectSeq(list, LAMBDA loc : loc.Machine.Name # machineName)

\* The step is a call of the function fn.
Calls(fn) == located' # <<>> /\ located'[1].fn = fn

\* C24: a call UpdateNodeLocation(machine, node, role) returns true exactly
\* when the list of the role after the call differs from the list before
\* it, returns false when the list had an entry of the machine on that node,
\* and after the call GetNode(machine, role) is node.
C24_UpdateNodeLocation ==
    [][Calls("UpdateNodeLocation") =>
         /\ located'[1].result =
               (ListOf(NodeLocations', located'[1].isControlPlane)
                   # ListOf(NodeLocations, located'[1].isControlPlane))
         /\ NodeLocation(located'[1].machineName, located'[1].node)
               \in Range(ListOf(NodeLocations, located'[1].isControlPlane))
               => ~located'[1].result
         /\ GetNode(NodeLocations', located'[1].machineName, located'[1].isControlPlane)
               = located'[1].node]_vars

\* C25: after a call RemoveNodeLocation(machine, role) the list of the role
\* has no entry of the machine, its other entries are those it had before
\* in the same order, and the list of the other role is what it was.
C25_RemoveNodeLocation ==
    [][Calls("RemoveNodeLocation") =>
         /\ EntriesOf(ListOf(NodeLocations', located'[1].isControlPlane),
                      located'[1].machineName) = <<>>
         /\ ListOf(NodeLocations', located'[1].isControlPlane)
               = EntriesNotOf(ListOf(NodeLocations, located'[1].isControlPlane),
                              located'[1].machineName)
         /\ ListOf(NodeLocations', ~located'[1].isControlPlane)
               = ListOf(NodeLocations, ~located'[1].isControlPlane)]_vars

\* Each machine has at most one entry in the list of each role.
MachinesUnique ==
    \A isControlPlane \in BOOLEAN, machineName \in MachineNames :
        Len(EntriesOf(ListOf(NodeLocations, isControlPlane), machineName)) <= 1

\* C30: after any calls of AddNodeLocation, UpdateNodeLocation and
\* RemoveNodeLocation on a status that had no locations, with any machine
\* names and any node names, the empty one too, each machine name is at
\* most once in the list of the control plane and at most once in the list
\* of the workers; a call of AddNodeLocation for a machine that has an
\* entry in the list of the role leaves the list as it was.
C30_MachinesUnique ==
    /\ []MachinesUnique
    /\ [][(/\ Calls("AddNodeLocation")
           /\ EntriesOf(ListOf(NodeLocations, located'[1].isControlPlane),
                        located'[1].machineName) # <<>>)
          => ListOf(NodeLocations', located'[1].isControlPlane)
                = ListOf(NodeLocations, located'[1].isControlPlane)]_vars

\* ------------------------------------------------------------------------
\* C26: in every pass the secret is got only when the guard is not set, the
\* status has an address and every net device has a MAC address, and it is
\* the first call; an address is looked up only after the secret was got
\* and held the value key, and after every earlier lookup succeeded; Inject
\* is called only as the last call, after the secret and every lookup
\* succeeded and the assembler with them; a call that fails is the last
\* call of its pass.
C26_CallOrder ==
    [][PassStep =>
         /\ calls' # <<>> =>
               /\ ~Guard /\ HasIPAddress /\ AllMacs
               /\ DataSecretName # <<>>
               /\ calls'[1].fn = "GetBootstrapSecret"
         /\ \A i \in DOMAIN calls' :
               /\ calls'[i].fn = "GetBootstrapSecret" => i = 1
               /\ calls'[i].fn = "findIPAddress" =>
                     /\ i > 1
                     /\ SecretOK
                     /\ calls'[1] = SecretCall(Nil)
                     /\ \A j \in 2..(i - 1) :
                            calls'[j].fn = "findIPAddress" /\ calls'[j].err = Nil
               /\ calls'[i].fn = "Inject" =>
                     /\ i = Len(calls')
                     /\ SecretOK
                     /\ ~AssemblerFails
                     /\ \A j \in 1..(i - 1) : calls'[j].err = Nil
                     /\ \A j \in 2..(i - 1) : calls'[j].fn = "findIPAddress"
               /\ calls'[i].err # Nil => i = Len(calls')]_vars

\* A pass got the secret, looked up three addresses and injected.
C26_Witness ==
    /\ returns = <<FALSE, Nil>>
    /\ Len(calls) = 5
    /\ calls[1] = SecretCall(Nil)
    /\ calls[2].fn = "findIPAddress" /\ calls[4].fn = "findIPAddress"
    /\ calls[5] = InjectCall(Nil)

\* ------------------------------------------------------------------------
\* What the property of the lookup keys speaks of.

\* The places of the dashes of a device name, and the name up to its first
\* dash: the whole name when it has none.
DashesOf(device) == {i \in DOMAIN device : device[i] = "-"}
BeforeFirstDash(device) ==
    IF DashesOf(device) = {} THEN device
    ELSE SubSeq(device, 1, (CHOOSE i \in DashesOf(device) :
                               \A j \in DashesOf(device) : i <= j) - 1)

\* The MAC address the VM config holds under a key, "" when it holds none.
MacUnder(key) == IF key \in DOMAIN nets THEN nets[key] ELSE ""

\* C27: getNetworkConfigDataForDevice reads the MAC address of a device name
\* under the part of the name before its first dash, the whole name when it
\* has no dash, and looks the address up under the whole name; when the VM
\* config holds no MAC address under the stripped name it returns the error
\* of the missing MAC address and looks no address up.
C27_LookupKeys ==
    resolution # <<>> =>
        /\ BeforeFirstDash(<<"net0", "-", "inet", "6">>) = <<"net0">>
        /\ BeforeFirstDash(<<"net", "-", "1", "-", "inet">>) = <<"net">>
        /\ BeforeFirstDash(<<"net0">>) = <<"net0">>
        /\ IF MacUnder(BeforeFirstDash(resolution[1].device)) = ""
           THEN /\ resolution[1].out.err = New(MsgNoMac)
                /\ resolution[1].out.lookups = <<>>
           ELSE /\ resolution[1].out.lookups = <<resolution[1].device>>
                /\ IF resolution[1].device \in addresses
                   THEN /\ resolution[1].out.err = Nil
                        /\ resolution[1].out.conf.MacAddress
                              = MacUnder(BeforeFirstDash(resolution[1].device))
                        /\ resolution[1].out.conf.IPAddress
                              = AllocatedAddress(resolution[1].device)
                        /\ resolution[1].out.conf.Gateway
                              = AllocatedGateway(resolution[1].device)
                   ELSE resolution[1].out.err = Wrap(ErrNotFound, MsgFindIPAddress)

\* The device net0-inet was resolved with the MAC address of net0 and the
\* address of net0-inet, though the VM config holds another MAC address
\* under net0-inet and no address is allocated under net0.
C27_Witness ==
    /\ resolution # <<>>
    /\ resolution[1].device = <<"net0", "-", "inet">>
    /\ MacUnder(<<"net0", "-", "inet">>) = "mac of net0"
    /\ resolution[1].device \in addresses
    /\ <<"net0">> \notin addresses
    /\ MacUnder(<<"net0">>) = "92:60:a0:5b:22:c2"
    /\ resolution[1].out.err = Nil
    /\ resolution[1].out.conf.MacAddress = "92:60:a0:5b:22:c2"
    /\ resolution[1].out.lookups = <<resolution[1].device>>

\* ------------------------------------------------------------------------
\* C28: every pass returns (false, nil), (true, nil) or (false, err) with
\* err # nil, never a requeue together with an error; a pass that returns
\* an error leaves the condition as one MarkFalse of that error made it, a
\* pass that returns (true, nil) for want of an IP address leaves it as
\* the MarkFalse of the missing address made it, and every other pass
\* leaves the condition as it was.
C28_OutcomeShape ==
    [][PassStep =>
         /\ Len(returns') = 2
         /\ returns'[1] \in BOOLEAN
         /\ returns'[1] => returns'[2] = Nil
         /\ IF returns'[2] # Nil
            THEN /\ \E reason \in {CloningFailedReason, WaitingForStaticIPAllocationReason,
                                   VMProvisionFailedReason} :
                       condition' = MarkFalse(reason, ConditionSeverityWarning,
                                              condition'.message)
                 /\ \/ returns'[2] = condition'.message
                    \/ returns'[2] = Wrap(condition'.message, MsgInject)
            ELSE IF returns'[1] /\ ~Guard /\ ~HasIPAddress
            THEN condition' = MarkFalse(WaitingForStaticIPAllocationReason,
                                        ConditionSeverityWarning, New("no ip address"))
            ELSE condition' = condition]_vars

\* A pass has just returned the error of the missing secret and marked the
\* condition with it.
C28_Witness ==
    /\ returns = <<FALSE, Wrap(ErrNotFound, MsgSecretRetrieve)>>
    /\ condition = MarkFalse(CloningFailedReason, ConditionSeverityWarning,
                             Wrap(ErrNotFound, MsgSecretRetrieve))
    /\ calls = <<SecretCall(ErrNotFound)>>
    /\ HasIPAddress

\* ------------------------------------------------------------------------
\* What the property of the MAC addresses of one assembler call speaks of.

\* The additional devices of the machine that reference both pools.
BothPools == {i \in DOMAIN AdditionalDevices :
                 AdditionalDevices[i].IPv4PoolRef /\ AdditionalDevices[i].IPv6PoolRef}

\* The two device names of an additional device.
InetOf(i) == AdditionalDevices[i].Name \o <<"-", "inet">>
Inet6Of(i) == AdditionalDevices[i].Name \o <<"-", "inet", "6">>

\* The VM config holds a MAC address for every net device and every device
\* name asked for has its address.
AllResolvable ==
    /\ \A d \in VMDevices : d \in DOMAIN nets /\ nets[d] # ""
    /\ addresses = ConfiguredKeys

\* C29: in one call of getNetworkConfigData the two resolutions of an
\* additional device that references both pools hold the same MAC address,
\* the one the VM config holds under the name of the device, so the call
\* never fails with the error of the different MAC addresses: when every
\* MAC address and every address is there the device has its one record
\* with that MAC address, and every error returned is another one.
C29_SameMac ==
    assembled # <<>> =>
        /\ MsgAdditionalMacMismatch \notin Range(assembled[1].err)
        /\ \A i \in BothPools :
              /\ (/\ getNetworkConfigDataForDevice(MachineScope, InetOf(i)).err = Nil
                  /\ getNetworkConfigDataForDevice(MachineScope, Inet6Of(i)).err = Nil) =>
                    /\ getNetworkConfigDataForDevice(MachineScope, InetOf(i)).conf.MacAddress
                          = nets[AdditionalDevices[i].Name]
                    /\ getNetworkConfigDataForDevice(MachineScope, Inet6Of(i)).conf.MacAddress
                          = nets[AdditionalDevices[i].Name]
              /\ AllResolvable =>
                    /\ assembled[1].err = Nil
                    /\ InetOf(i) \in Range(assembled[1].lookups)
                    /\ Inet6Of(i) \in Range(assembled[1].lookups)
                    /\ \E j \in DOMAIN assembled[1].data :
                           assembled[1].data[j].MacAddress = nets[AdditionalDevices[i].Name]

\* A list was returned for two additional devices that both reference an
\* IPv4 and an IPv6 pool.
C29_Witness ==
    /\ assembled # <<>>
    /\ assembled[1].err = Nil
    /\ BothPools = {1, 2}
    /\ AllResolvable
    /\ \A i \in BothPools : /\ InetOf(i) \in Range(assembled[1].lookups)
                            /\ Inet6Of(i) \in Range(assembled[1].lookups)
    /\ Len(assembled[1].data) = 3

====
